---- MODULE Spec2Model ----
(***************************************************************************)
(* Vehicle-routing core of quantum-route-navigator: the greedy classical   *)
(* solver, the jittered nearest-neighbour sampler ("QAOA" mock), the       *)
(* binary-vector decoder and the QUBO encoder.                             *)
(*                                                                         *)
(* Conventions: node 0 is the depot; a path is a sequence of node ids      *)
(* (TLA+ sequences are 1-based, so path[1] is the source's path[0]); a      *)
(* distance matrix and a binary vector keep the source's 0-based indices   *)
(* (functions over 0..n-1 and 0..n*n*v-1).                                 *)
(***************************************************************************)
EXTENDS Integers, Sequences, FiniteSets, TLC

\* ---------------------------------------------------------------- bounds
MaxNodes == 3
MaxVehicles == 2
MaxDist == 3
MaxBits == 2

\* ------------------------------------------------------------- constants
\* default penalty coefficient of vrpToQubo
DefaultPenalty == 10

\* randomFactor = 1 + (Math.random() * 0.5 - 0.25)  lies in [0.75, 1.25]: the
\* sum rounds to 1.25 itself for the largest values of Math.random().
\* Factors are counted in units of 1 / JitterScale.  Only the two ends of the
\* range are kept: a candidate that can win the comparison for some draws
\* wins it when its own factor is lowest and the others' are highest.
JitterScale == 100

Jitter == {(3 * JitterScale) \div 4, (5 * JitterScale) \div 4}

\* ---------------------------------------------------------------- helpers
Last(s) == s[Len(s)]

RECURSIVE SumSeq(_)
SumSeq(s) == IF s = <<>> THEN 0 ELSE Head(s) + SumSeq(Tail(s))

\* [...Array(n).keys()]  restricted to an ascending run lo..hi, as a sequence
Range(lo, hi) == [t \in 1..(IF hi >= lo THEN hi - lo + 1 ELSE 0) |-> lo + t - 1]

\* Set.delete on an insertion-ordered set kept as a sequence
Delete(s, x) == SelectSeq(s, LAMBDA y : y # x)

\* variant: the slice starts one element late
NonDepotNodes_sliceTwo(n) == Range(2, n - 1)

\* new Set([...Array(n).keys()].slice(1)) : all nodes except the depot
NonDepotNodes(n) == Range(1, n - 1)

\* ------------------------------------------------------------ VRPProblem
\* symmetric, zero-diagonal n x n matrices with off-diagonal entries in D
\* (DistanceMatrix = number[][], with the invariants the generator keeps)
UpperPairs(n) == { p \in (0..(n - 1)) \X (0..(n - 1)) : p[1] < p[2] }

Matrices(n, D) ==
    { [i \in 0..(n - 1) |-> [j \in 0..(n - 1) |->
          IF i = j THEN 0 ELSE IF i < j THEN u[<<i, j>>] ELSE u[<<j, i>>]]] :
      u \in [UpperPairs(n) -> D] }

\* VRPProblem: nodes and vehicles carry id = position, so only their counts
\* (nodes.length, vehicles.length) and the matrix are kept
Problems(D) ==
    UNION { { [n |-> n, v |-> v, dm |-> dm] :
                v \in 0..MaxVehicles, dm \in Matrices(n, D) } :
            n \in 0..MaxNodes }

\* positive distances the solvers are run on: two values close enough (ratio
\* below 1.25 / 0.75) for the jitter to change which node is nearest
Dists == {MaxDist - 1, MaxDist}

\* nodes on a line at unit spacing
LineMatrix(n) ==
    [i \in 0..(n - 1) |-> [j \in 0..(n - 1) |-> IF i > j THEN i - j ELSE j - i]]

LineProblems ==
    { [n |-> n, v |-> v, dm |-> LineMatrix(n)] : n \in 0..MaxNodes, v \in 0..MaxVehicles }

\* the worked example of the specification: 4 nodes, 1 vehicle
ExampleMatrix ==
    [i \in 0..3 |-> [j \in 0..3 |->
        <<<<0, 1, 2, 3>>, <<1, 0, 4, 5>>, <<2, 4, 0, 6>>, <<3, 5, 6, 0>>>>[i + 1][j + 1]]]

ExampleProblem == [n |-> 4, v |-> 1, dm |-> ExampleMatrix]

\* no problem has been made yet
NoProblem == [n |-> 0, v |-> 0, dm |-> LineMatrix(0)]

\* Route
NewRoute(vehicleId) == [vehicleId |-> vehicleId, path |-> <<0>>, distance |-> 0]

\* the value of a solver-result variable before the solver was called
NoResult == [status |-> "none", routes |-> <<>>, totalDistance |-> 0, solver |-> "none"]

\* --------------------------------------------------- solveVRPClassical
\* vehicles.map(vehicle => ({vehicleId: vehicle.id, path: [0], distance: 0}))
InitialRoutes(v) == [k \in 1..v |-> NewRoute(k - 1)]

\* variant: the comparison is turned around and keeps the farthest node
RECURSIVE FindClosest_farthest(_, _, _, _)
FindClosest_farthest(dm, currentNode, nodes, best) ==
    IF nodes = <<>> THEN best
    ELSE LET node == Head(nodes)
             dist == dm[currentNode][node]
         IN  FindClosest_farthest(dm, currentNode, Tail(nodes),
                 IF best.node = -1 \/ dist > best.dist
                 THEN [node |-> node, dist |-> dist]
                 ELSE best)

\* for (const node of unassignedNodes) { if (dist < bestDistance) ... }
\* best.node = -1 stands for bestDistance = Infinity
RECURSIVE FindClosest(_, _, _, _)
FindClosest(dm, currentNode, nodes, best) ==
    IF nodes = <<>> THEN best
    ELSE LET node == Head(nodes)
             dist == dm[currentNode][node]
         IN  FindClosest(dm, currentNode, Tail(nodes),
                 IF best.node = -1 \/ dist < best.dist
                 THEN [node |-> node, dist |-> dist]
                 ELSE best)

\* variant: the turn passes on until the last vehicle and stays there
ClassicalIter_lastKeepsTurn(dm, v, st) ==
    LET vehicle == st.routes[st.currentVehicle + 1]
        currentNode == Last(vehicle.path)
        best == FindClosest(dm, currentNode, st.unassigned, [node |-> -1, dist |-> 0])
    IN  [routes |->
            [st.routes EXCEPT ![st.currentVehicle + 1] =
                [vehicleId |-> vehicle.vehicleId,
                 path |-> Append(vehicle.path, best.node),
                 distance |-> vehicle.distance + best.dist]],
         unassigned |-> Delete(st.unassigned, best.node),
         currentVehicle |-> IF st.currentVehicle + 1 < v
                            THEN st.currentVehicle + 1
                            ELSE st.currentVehicle,
         error |-> FALSE]

\* one iteration of the while loop (routes[currentVehicle] exists)
ClassicalIter(dm, v, st) ==
    LET vehicle == st.routes[st.currentVehicle + 1]
        currentNode == Last(vehicle.path)
        best == FindClosest(dm, currentNode, st.unassigned, [node |-> -1, dist |-> 0])
    IN  [routes |->
            IF best.node # -1
            THEN [st.routes EXCEPT ![st.currentVehicle + 1] =
                     [vehicleId |-> vehicle.vehicleId,
                      path |-> Append(vehicle.path, best.node),
                      distance |-> vehicle.distance + best.dist]]
            ELSE st.routes,
         unassigned |->
            IF best.node # -1 THEN Delete(st.unassigned, best.node) ELSE st.unassigned,
         currentVehicle |-> (st.currentVehicle + 1) % v,
         error |-> FALSE]

\* while (unassignedNodes.size > 0) { ... } ; with no vehicle routes[0] is
\* undefined and reading its path throws a TypeError
RECURSIVE ClassicalLoop(_, _, _)
ClassicalLoop(dm, v, st) ==
    IF Len(st.unassigned) = 0 THEN st
    ELSE IF v = 0 THEN [st EXCEPT !.error = TRUE]
    ELSE ClassicalLoop(dm, v, ClassicalIter(dm, v, st))

\* variant: the closing edge is appended but its length is not added
ReturnToDepot_noClosingDistance(dm, route) ==
    LET lastNode == Last(route.path)
    IN  IF lastNode # 0
        THEN [vehicleId |-> route.vehicleId,
              path |-> Append(route.path, 0),
              distance |-> route.distance]
        ELSE route

\* for (const vehicle of routes) { if (lastNode !== 0) push(0) ... }
ReturnToDepot(dm, route) ==
    LET lastNode == Last(route.path)
    IN  IF lastNode # 0
        THEN [vehicleId |-> route.vehicleId,
              path |-> Append(route.path, 0),
              distance |-> route.distance + dm[lastNode][0]]
        ELSE route

\* routes.reduce((sum, route) => sum + route.distance, 0)
TotalDistance(routes) == SumSeq([k \in 1..Len(routes) |-> routes[k].distance])

solveVRPClassical(p) ==
    LET st == ClassicalLoop(p.dm, p.v,
                  [routes |-> InitialRoutes(p.v),
                   unassigned |-> NonDepotNodes(p.n),
                   currentVehicle |-> 0,
                   error |-> FALSE])
        routes == [k \in 1..Len(st.routes) |-> ReturnToDepot(p.dm, st.routes[k])]
    IN  IF st.error
        THEN [status |-> "TypeError", routes |-> <<>>, totalDistance |-> 0,
              solver |-> "none"]
        ELSE [status |-> "ok", routes |-> routes,
              totalDistance |-> TotalDistance(routes), solver |-> "classical"]

\* ------------------------------------------------------- decodeSolution
\* variant: the origin's stride forgets the vehicle count
index_shortStride(i, j, veh, n, v) == i * n + j * v + veh

\* const index = (i, j, veh) => i * n * v + j * v + veh
index(i, j, veh, n, v) == i * n * v + j * v + veh

\* solution[idx] === 1 ; reading past the end of the array gives undefined
Bit(solution, idx) == idx \in DOMAIN solution /\ solution[idx] = 1

\* for (let j = 0; j < n; j++) { if (!visited.has(j) && solution[idx] === 1) ... break }
\* scanning from j upwards; -1 when the scan finds nothing
RECURSIVE ScanNext(_, _, _, _, _, _, _)
ScanNext(solution, n, v, currentNode, veh, visitedNodes, j) ==
    IF j >= n THEN -1
    ELSE IF j \notin visitedNodes /\ Bit(solution, index(currentNode, j, veh, n, v))
         THEN j
         ELSE ScanNext(solution, n, v, currentNode, veh, visitedNodes, j + 1)

\* variant: away from the depot the scan also follows an edge back to it
DecodeIter_followsDepotEdge(solution, n, v, dm, veh, st) ==
    LET nextNode == ScanNext(solution, n, v, st.currentNode, veh,
                             IF st.currentNode # 0
                             THEN st.visitedNodes \ {0}
                             ELSE st.visitedNodes, 0)
    IN  IF nextNode = -1 THEN st
        ELSE [route |-> [vehicleId |-> st.route.vehicleId,
                         path |-> Append(st.route.path, nextNode),
                         distance |-> st.route.distance + dm[st.currentNode][nextNode]],
              visitedNodes |-> st.visitedNodes \cup {nextNode},
              currentNode |-> nextNode]

\* one iteration of  while (visitedNodes.size < n)  for vehicle veh; st holds
\* the vehicle's route, its own visitedNodes set and currentNode.  When the
\* scan finds nothing the loop is left (break) and st is returned as it is.
DecodeIter(solution, n, v, dm, veh, st) ==
    LET nextNode == ScanNext(solution, n, v, st.currentNode, veh, st.visitedNodes, 0)
    IN  IF nextNode = -1 THEN st
        ELSE [route |-> [vehicleId |-> st.route.vehicleId,
                         path |-> Append(st.route.path, nextNode),
                         distance |-> st.route.distance + dm[st.currentNode][nextNode]],
              visitedNodes |-> st.visitedNodes \cup {nextNode},
              currentNode |-> nextNode]

\* while (visitedNodes.size < n) { ... } for one vehicle
RECURSIVE DecodeLoop(_, _, _, _, _, _)
DecodeLoop(solution, n, v, dm, veh, st) ==
    IF Cardinality(st.visitedNodes) >= n THEN st
    ELSE LET next == DecodeIter(solution, n, v, dm, veh, st)
         IN  IF next = st THEN st
             ELSE DecodeLoop(solution, n, v, dm, veh, next)

\* a fresh visitedNodes = {0} and currentNode = 0 for each vehicle
DecodeStart(veh) == [route |-> NewRoute(veh), visitedNodes |-> {0}, currentNode |-> 0]

\* if (route.path.length > 1) { push(0); distance += distanceMatrix[last][0] }
DecodeClose(dm, r) ==
    IF Len(r.path) > 1
    THEN [vehicleId |-> r.vehicleId,
          path |-> Append(r.path, 0),
          distance |-> r.distance + dm[Last(r.path)][0]]
    ELSE r

\* the body of  for (let veh = 0; veh < v; veh++)  for one vehicle:
\* the scan loop from a fresh state, then the closing edge
DecodeVehicle(solution, n, v, dm, veh) ==
    DecodeClose(dm, DecodeLoop(solution, n, v, dm, veh, DecodeStart(veh)).route)

\* variant: nothing is filtered out
FilterUnused_keepsAll(routes) == routes

\* routes.filter(route => route.path.length > 2)
FilterUnused(routes) == SelectSeq(routes, LAMBDA r : Len(r.path) > 2)

decodeSolution(solution, p) ==
    FilterUnused([k \in 1..p.v |-> DecodeVehicle(solution, p.n, p.v, p.dm, k - 1)])

\* ---------------------------------------------------- mockQAOAExecution
\* variant: origin and destination change places
samplerIdx_swapped(currentNode, node, veh, n, v) == node * n * v + currentNode * v + veh

\* const idx = currentNode * n * v + bestNode * v + veh
samplerIdx(currentNode, node, veh, n, v) == currentNode * n * v + node * v + veh

\* Array(numVars).fill(0)
ZeroVector(numVars) == [a \in 0..(numVars - 1) |-> 0]

\* for (const nextNode of remainingNodes) { adjustedDist = dist * randomFactor ... }
\* one random draw is consumed per candidate; best.node = -1 stands for
\* bestDist = Infinity; adjusted distances are in units of 1 / JitterScale like Jitter
RECURSIVE PickJittered(_, _, _, _, _)
PickJittered(dm, currentNode, nodes, draws, best) ==
    IF nodes = <<>> THEN [node |-> best.node, draws |-> draws]
    ELSE LET nextNode == Head(nodes)
             adjustedDist == dm[currentNode][nextNode] * Head(draws)
         IN  PickJittered(dm, currentNode, Tail(nodes), Tail(draws),
                 IF best.node = -1 \/ adjustedDist < best.dist
                 THEN [node |-> nextNode, dist |-> adjustedDist]
                 ELSE best)

\* one iteration of  while (remainingNodes.size > 0)  for vehicle veh, at
\* currentNode; st.chosen[veh + 1] records the nodes the vehicle took, in
\* order (a history of the loop).  When no node is picked the loop is left
\* (break) and remainingNodes is returned as it is.
SamplerIter(p, veh, st, currentNode) ==
    LET pick == PickJittered(p.dm, currentNode, st.remainingNodes, st.draws,
                             [node |-> -1, dist |-> 0])
    IN  IF pick.node # -1
        THEN [solution |-> [st.solution EXCEPT
                               ![samplerIdx(currentNode, pick.node, veh, p.n, p.v)] = 1],
              remainingNodes |-> Delete(st.remainingNodes, pick.node),
              draws |-> pick.draws,
              chosen |-> [st.chosen EXCEPT ![veh + 1] = Append(@, pick.node)],
              currentNode |-> pick.node]
        ELSE [st EXCEPT !.currentNode = currentNode, !.draws = pick.draws]

\* variant: the loop is left after the first node a vehicle takes
SamplerLoop_onePick(p, veh, st, currentNode) ==
    IF Len(st.remainingNodes) = 0 THEN [st EXCEPT !.currentNode = currentNode]
    ELSE SamplerIter(p, veh, st, currentNode)

\* while (remainingNodes.size > 0) { ... } for vehicle veh
RECURSIVE SamplerLoop(_, _, _, _)
SamplerLoop(p, veh, st, currentNode) ==
    IF Len(st.remainingNodes) = 0 THEN [st EXCEPT !.currentNode = currentNode]
    ELSE LET next == SamplerIter(p, veh, st, currentNode)
         IN  IF next.remainingNodes # st.remainingNodes
             THEN SamplerLoop(p, veh, next, next.currentNode)
             ELSE next

\* if (currentNode !== 0) solution[idx(currentNode, 0, veh)] = 1
\* variant: the return edge to the depot is not recorded
SamplerClose_staysOut(p, veh, after) == after

SamplerClose(p, veh, after) ==
    IF after.currentNode # 0
    THEN [after EXCEPT !.solution[samplerIdx(after.currentNode, 0, veh, p.n, p.v)] = 1]
    ELSE after

\* for (let veh = 0; veh < v && remainingNodes.size > 0; veh++) { ... }
RECURSIVE SamplerVehicles(_, _, _)
SamplerVehicles(p, veh, st) ==
    IF ~(veh < p.v /\ Len(st.remainingNodes) > 0) THEN st
    ELSE SamplerVehicles(p, veh + 1, SamplerClose(p, veh, SamplerLoop(p, veh, st, 0)))

\* the sampler's final state for a given sequence of random draws
SamplerRun(p, draws) ==
    SamplerVehicles(p, 0,
        [solution |-> ZeroVector(p.n * p.n * p.v),
         remainingNodes |-> NonDepotNodes(p.n),
         draws |-> draws,
         chosen |-> [k \in 1..p.v |-> <<>>],
         currentNode |-> 0])

\* quboMatrix and params are parameters the body never reads
mockQAOAExecution(quboMatrix, p, params, draws) == SamplerRun(p, draws).solution

\* ------------------------------------------------------------ vrpToQubo
\* variant: the matrix is allocated with one row too many
ZeroMatrix_extraRow(numVars) == [a \in 0..numVars |-> [b \in 0..(numVars - 1) |-> 0]]

\* Array(numVars).fill(0).map(() => Array(numVars).fill(0))
ZeroMatrix(numVars) == [a \in 0..(numVars - 1) |-> [b \in 0..(numVars - 1) |-> 0]]

\* Q[a][b] += x
AddTo(Q, a, b, x) == [Q EXCEPT ![a][b] = @ + x]

RECURSIVE Product(_)
Product(dims) == IF dims = <<>> THEN 1 ELSE Head(dims) * Product(Tail(dims))

\* the index tuples a nest of for-loops  for (x1 = 0; x1 < dims[1]; x1++)
\* for (x2 = 0; x2 < dims[2]; x2++) ...  runs through, in execution order
LoopNest(dims) ==
    [t \in 1..Product(dims) |->
        [d \in 1..Len(dims) |->
            ((t - 1) \div Product(SubSeq(dims, d + 1, Len(dims)))) % dims[d]]]

\* the += statements a loop executes are kept as <<a, b, x>> for
\* Q[a][b] += x, in execution order; Flatten joins the statements of the
\* successive iterations (by halves, to keep the evaluation shallow)
RECURSIVE Flatten(_)
Flatten(ss) ==
    IF Len(ss) = 0 THEN <<>>
    ELSE IF Len(ss) = 1 THEN ss[1]
    ELSE LET h == Len(ss) \div 2
         IN  Flatten(SubSeq(ss, 1, h)) \o Flatten(SubSeq(ss, h + 1, Len(ss)))

\* execute a sequence of += statements on Q, first to last.  The sequence is
\* split in halves, and the first half's matrix is computed (by the test on
\* its DOMAIN, which always holds) before the second half starts, only to
\* keep TLC's evaluation shallow.
RECURSIVE Execute(_, _)
Execute(Q, stmts) ==
    IF Len(stmts) = 0 THEN Q
    ELSE IF Len(stmts) = 1 THEN AddTo(Q, stmts[1][1], stmts[1][2], stmts[1][3])
    ELSE LET h == Len(stmts) \div 2
             firstHalf == Execute(Q, SubSeq(stmts, 1, h))
         IN  IF DOMAIN firstHalf = DOMAIN Q
             THEN Execute(firstHalf, SubSeq(stmts, h + 1, Len(stmts)))
             ELSE Q

\* 1. objective: Q[idx][idx] += distanceMatrix[i][j]  for i != j
ObjectivePass(Q, n, v, dm) ==
    LET loops == LoopNest(<<n, n, v>>)
        Body(t) ==
            LET i == t[1]
                j == t[2]
                veh == t[3]
                idx == index(i, j, veh, n, v)
            IN  IF i # j THEN << <<idx, idx, dm[i][j]>> >> ELSE <<>>
    IN  Execute(Q, Flatten([t \in 1..Len(loops) |-> Body(loops[t])]))

\* variant: the depot is constrained like any other destination
DestinationPass_depotToo(Q, n, v, penalty) ==
    LET loops == LoopNest(<<n, n, v>>)
        inner == LoopNest(<<n, v>>)
        Body(t) ==
            LET j == t[1]
                i1 == t[2]
                v1 == t[3]
                idx1 == index(i1, j, v1, n, v)
                Body2(t2) ==
                    LET i2 == t2[1]
                        v2 == t2[2]
                    IN  IF i1 = i2 /\ v1 = v2 THEN <<>>
                        ELSE << <<idx1, index(i2, j, v2, n, v), penalty * 2>> >>
            IN  << <<idx1, idx1, penalty * (1 - 2)>> >>
                \o Flatten([t2 \in 1..Len(inner) |-> Body2(inner[t2])])
    IN  Execute(Q, Flatten([t \in 1..Len(loops) |-> Body(loops[t])]))

\* 2. each non-depot node is a destination exactly once
DestinationPass(Q, n, v, penalty) ==
    LET loops == LoopNest(<<n, n, v>>)
        inner == LoopNest(<<n, v>>)
        Body(t) ==
            LET j == t[1]
                i1 == t[2]
                v1 == t[3]
                idx1 == index(i1, j, v1, n, v)
                Body2(t2) ==
                    LET i2 == t2[1]
                        v2 == t2[2]
                    IN  IF i1 = i2 /\ v1 = v2 THEN <<>>
                        ELSE << <<idx1, index(i2, j, v2, n, v), penalty * 2>> >>
            IN  IF j = 0 THEN <<>>
                ELSE << <<idx1, idx1, penalty * (1 - 2)>> >>
                     \o Flatten([t2 \in 1..Len(inner) |-> Body2(inner[t2])])
    IN  Execute(Q, Flatten([t \in 1..Len(loops) |-> Body(loops[t])]))

\* variant: self-loop variables are charged like any other origin variable
SourcePass_selfLoopsToo(Q, n, v, penalty) ==
    LET loops == LoopNest(<<n, n, v>>)
        inner == LoopNest(<<n, v>>)
        Body(t) ==
            LET i == t[1]
                j1 == t[2]
                v1 == t[3]
                idx1 == index(i, j1, v1, n, v)
                Body2(t2) ==
                    LET j2 == t2[1]
                        v2 == t2[2]
                    IN  IF j1 = j2 /\ v1 = v2 THEN <<>>
                        ELSE IF i = j2 THEN <<>>
                        ELSE << <<idx1, index(i, j2, v2, n, v), penalty * 2>> >>
            IN  IF i = 0 THEN <<>>
                ELSE << <<idx1, idx1, penalty * (1 - 2)>> >>
                     \o Flatten([t2 \in 1..Len(inner) |-> Body2(inner[t2])])
    IN  Execute(Q, Flatten([t \in 1..Len(loops) |-> Body(loops[t])]))

\* 3. each non-depot node is a source exactly once
SourcePass(Q, n, v, penalty) ==
    LET loops == LoopNest(<<n, n, v>>)
        inner == LoopNest(<<n, v>>)
        Body(t) ==
            LET i == t[1]
                j1 == t[2]
                v1 == t[3]
                idx1 == index(i, j1, v1, n, v)
                Body2(t2) ==
                    LET j2 == t2[1]
                        v2 == t2[2]
                    IN  IF j1 = j2 /\ v1 = v2 THEN <<>>
                        ELSE IF i = j2 THEN <<>>
                        ELSE << <<idx1, index(i, j2, v2, n, v), penalty * 2>> >>
            IN  IF i = 0 THEN <<>>
                ELSE IF i = j1 THEN <<>>
                ELSE << <<idx1, idx1, penalty * (1 - 2)>> >>
                     \o Flatten([t2 \in 1..Len(inner) |-> Body2(inner[t2])])
    IN  Execute(Q, Flatten([t \in 1..Len(loops) |-> Body(loops[t])]))

\* variant: the cross term is written at Q[out][in]
ContinuityPass_crossTransposed(Q, n, v, penalty) ==
    LET loops == LoopNest(<<n, v, n, n>>)
        Body(t) ==
            LET k == t[1]
                veh == t[2]
                i == t[3]
                j == t[4]
                in_idx == index(i, k, veh, n, v)
                out_idx == index(k, j, veh, n, v)
            IN  IF k = 0 \/ i = k \/ j = k THEN <<>>
                ELSE << <<in_idx, in_idx, penalty>>,
                        <<out_idx, out_idx, penalty>>,
                        <<out_idx, in_idx, -(penalty * 2)>> >>
    IN  Execute(Q, Flatten([t \in 1..Len(loops) |-> Body(loops[t])]))

\* 4. route continuity at every non-depot node k for every vehicle
ContinuityPass(Q, n, v, penalty) ==
    LET loops == LoopNest(<<n, v, n, n>>)
        Body(t) ==
            LET k == t[1]
                veh == t[2]
                i == t[3]
                j == t[4]
                in_idx == index(i, k, veh, n, v)
                out_idx == index(k, j, veh, n, v)
            IN  IF k = 0 \/ i = k \/ j = k THEN <<>>
                ELSE << <<in_idx, in_idx, penalty>>,
                        <<out_idx, out_idx, penalty>>,
                        <<in_idx, out_idx, -(penalty * 2)>> >>
    IN  Execute(Q, Flatten([t \in 1..Len(loops) |-> Body(loops[t])]))

\* number of rows of a distance matrix (distanceMatrix.length)
Rows(dm) == Cardinality(DOMAIN dm)

\* how a call ends.  The function checks none of its arguments; the one
\* statement that can throw is the read distanceMatrix[i][j] of the objective
\* pass, made for every i != j below nodes.length: it is a TypeError when row
\* i does not exist.
vrpToQuboStatus(p, penalty) ==
    IF \E i, j \in 0..(p.n - 1) : i # j /\ i \notin DOMAIN p.dm
    THEN "TypeError"
    ELSE "ok"

\* the matrix after each of the four passes, in order
vrpToQuboPasses(p, penalty) ==
    LET Q1 == ObjectivePass(ZeroMatrix(p.n * p.n * p.v), p.n, p.v, p.dm)
        Q2 == DestinationPass(Q1, p.n, p.v, penalty)
        Q3 == SourcePass(Q2, p.n, p.v, penalty)
        Q4 == ContinuityPass(Q3, p.n, p.v, penalty)
    IN  <<Q1, Q2, Q3, Q4>>

vrpToQubo(p, penalty) == vrpToQuboPasses(p, penalty)[4]

\* ----------------------------------------------------- solveVRPWithQAOA
\* variant: the solver refuses a problem without vehicles
solveVRPWithQAOA_needsVehicle(p, params, draws) ==
    LET quboMatrix == vrpToQubo(p, DefaultPenalty)
        solution == mockQAOAExecution(quboMatrix, p, params, draws)
        routes == decodeSolution(solution, p)
    IN  IF p.v = 0 \/ vrpToQuboStatus(p, DefaultPenalty) # "ok"
        THEN [status |-> "InvalidInput", routes |-> <<>>, totalDistance |-> 0,
              solver |-> "none"]
        ELSE [status |-> "ok", routes |-> routes,
              totalDistance |-> TotalDistance(routes), solver |-> "quantum"]

\* encoder, sampler, decoder, total; an exception of the encoder is not caught
solveVRPWithQAOA(p, params, draws) ==
    LET quboMatrix == vrpToQubo(p, DefaultPenalty)
        solution == mockQAOAExecution(quboMatrix, p, params, draws)
        routes == decodeSolution(solution, p)
    IN  IF vrpToQuboStatus(p, DefaultPenalty) # "ok"
        THEN [status |-> "TypeError", routes |-> <<>>, totalDistance |-> 0,
              solver |-> "none"]
        ELSE [status |-> "ok", routes |-> routes,
              totalDistance |-> TotalDistance(routes), solver |-> "quantum"]

\* ------------------------------------------ generateRandomDistanceMatrix
\* Math.random() is kept as a fraction k / RandomSteps with k in
\* 0..RandomSteps-1, fine enough for every distance up to MaxDist to come out
RandomSteps == MaxDist + 1

\* variant: the  + 1  after Math.floor is left out
generateRandomDistanceMatrix_fromZero(numNodes, maxDistance, draws) ==
    [i \in 0..(numNodes - 1) |-> [j \in 0..(numNodes - 1) |->
        IF i = j THEN 0
        ELSE LET k == IF i < j THEN draws[<<i, j>>] ELSE draws[<<j, i>>]
             IN  (k * maxDistance) \div RandomSteps]]

\* rows of zeros, then for every i < j
\*   distance = Math.floor(Math.random() * maxDistance) + 1
\*   matrix[i][j] = distance; matrix[j][i] = distance
\* draws[<<i, j>>] is the numerator of the random number drawn for the pair
generateRandomDistanceMatrix(numNodes, maxDistance, draws) ==
    [i \in 0..(numNodes - 1) |-> [j \in 0..(numNodes - 1) |->
        IF i = j THEN 0
        ELSE LET k == IF i < j THEN draws[<<i, j>>] ELSE draws[<<j, i>>]
             IN  (k * maxDistance) \div RandomSteps + 1]]

\* ================================================================ the heap
\* The four functions once more, on objects.  An object lives in a cell of a
\* heap (a sequence of cells); its address is the cell's index, and an array
\* element or a field that holds an object holds the object's address.  A
\* function reads and writes through the addresses it is handed, and what it
\* allocates is appended to the heap.  Arrays indexed from 0 that never grow
\* (nodes, vehicles, matrix rows, binary vectors) are functions over
\* 0..length-1; arrays that grow by push (paths, routes) are sequences.  The
\* Sets a call builds never leave it and stay values.

\* a VRPProblem object with its nodes, vehicles and distanceMatrix arrays,
\* its Node and Vehicle objects and its matrix rows; the problem object is
\* cell Len(h) + 1
NewProblem(h, p) ==
    LET base == Len(h)
        rows == Rows(p.dm)
    IN  h \o << [nodes |-> base + 2, vehicles |-> base + 3, distanceMatrix |-> base + 4],
                [i \in 0..(p.n - 1) |-> base + 5 + i],
                [k \in 0..(p.v - 1) |-> base + 5 + p.n + k],
                [i \in 0..(rows - 1) |-> base + 5 + p.n + p.v + i] >>
          \o [c \in 1..p.n |-> [id |-> c - 1]]
          \o [c \in 1..p.v |-> [id |-> c - 1]]
          \o [c \in 1..rows |-> p.dm[c - 1]]

\* a number[][] with its rows; the outer array is cell Len(h) + Rows(M) + 1
NewMatrix(h, M) ==
    h \o [c \in 1..Rows(M) |-> M[c - 1]]
      \o << [a \in 0..(Rows(M) - 1) |-> Len(h) + a + 1] >>

\* the number[][] at address m, read row by row
MatrixAt(h, m) == [i \in DOMAIN h[m] |-> h[h[m][i]]]

\* the VRPProblem at address problemRef as the solvers read it: nodes.length,
\* vehicles.length and the distance matrix
ProblemAt(h, problemRef) ==
    [n |-> Rows(h[h[problemRef].nodes]),
     v |-> Rows(h[h[problemRef].vehicles]),
     dm |-> MatrixAt(h, h[problemRef].distanceMatrix)]

\* the Route[] at address routes, read object by object
RoutesAt(h, routes) ==
    [k \in 1..Len(h[routes]) |->
        [vehicleId |-> h[h[routes][k]].vehicleId,
         path |-> h[h[h[routes][k]].path],
         distance |-> h[h[routes][k]].distance]]

\* the VRPSolution at address ref
SolutionAt(h, ref) ==
    [status |-> "ok", routes |-> RoutesAt(h, h[ref].routes),
     totalDistance |-> h[ref].totalDistance, solver |-> h[ref].solver]

\* routes.reduce((sum, route) => sum + route.distance, 0)
HeapTotalDistance(h, routes) ==
    SumSeq([k \in 1..Len(h[routes]) |-> h[h[routes][k]].distance])

\* variant: the routes are made by taking the vehicles off the problem's
\* vehicles array
MapRoutes_popsVehicles(h, vehicles) ==
    LET v == Rows(h[vehicles])
        base == Len(h)
        made == h \o [c \in 1..(2 * v) |->
                         IF c % 2 = 1 THEN <<0>>
                         ELSE [vehicleId |-> h[h[vehicles][(c \div 2) - 1]].id,
                               path |-> base + c - 1,
                               distance |-> 0]]
                  \o << [k \in 1..v |-> base + 2 * k] >>
    IN  [made EXCEPT ![vehicles] = <<>>]

\* routes = vehicles.map(vehicle => ({vehicleId: vehicle.id, path: [0], distance: 0}))
\* a new path array and a new Route object for each vehicle, then the new
\* routes array, which is cell Len(h) + 2 * vehicles.length + 1
MapRoutes(h, vehicles) ==
    LET v == Rows(h[vehicles])
        base == Len(h)
    IN  h \o [c \in 1..(2 * v) |->
                 IF c % 2 = 1 THEN <<0>>
                 ELSE [vehicleId |-> h[h[vehicles][(c \div 2) - 1]].id,
                       path |-> base + c - 1,
                       distance |-> 0]]
          \o << [k \in 1..v |-> base + 2 * k] >>

\* while (unassignedNodes.size > 0) { ... } : vehicle = routes[currentVehicle],
\* vehicle.path.push(bestNode), vehicle.distance += bestDistance,
\* unassignedNodes.delete(bestNode), the turn passes on; without a vehicle
\* routes[0] is undefined and reading its path throws
RECURSIVE HeapClassicalLoop(_, _, _, _, _, _)
HeapClassicalLoop(h, distanceMatrix, routes, v, unassignedNodes, currentVehicle) ==
    IF Len(unassignedNodes) = 0 THEN [heap |-> h, error |-> FALSE]
    ELSE IF currentVehicle + 1 \notin DOMAIN h[routes] THEN [heap |-> h, error |-> TRUE]
    ELSE LET vehicle == h[routes][currentVehicle + 1]
             currentNode == Last(h[h[vehicle].path])
             best == FindClosest(MatrixAt(h, distanceMatrix), currentNode,
                                 unassignedNodes, [node |-> -1, dist |-> 0])
             h1 == [h EXCEPT ![h[vehicle].path] = Append(@, best.node)]
             h2 == [h1 EXCEPT ![vehicle].distance = @ + best.dist]
         IN  IF best.node # -1
             THEN HeapClassicalLoop(h2, distanceMatrix, routes, v,
                                    Delete(unassignedNodes, best.node),
                                    (currentVehicle + 1) % v)
             ELSE HeapClassicalLoop(h, distanceMatrix, routes, v, unassignedNodes,
                                    (currentVehicle + 1) % v)

\* for (const vehicle of routes) { if (lastNode !== 0) { vehicle.path.push(0);
\*   vehicle.distance += distanceMatrix[lastNode][0] } } , from route k on
RECURSIVE HeapReturnToDepot(_, _, _, _)
HeapReturnToDepot(h, distanceMatrix, routes, k) ==
    IF k > Len(h[routes]) THEN h
    ELSE LET vehicle == h[routes][k]
             lastNode == Last(h[h[vehicle].path])
             h1 == [h EXCEPT ![h[vehicle].path] = Append(@, 0)]
             h2 == [h1 EXCEPT ![vehicle].distance = @ + h1[h1[distanceMatrix][lastNode]][0]]
         IN  HeapReturnToDepot(IF lastNode # 0 THEN h2 ELSE h, distanceMatrix, routes, k + 1)

\* solveVRPClassical(problem): the heap when it returns or throws, and the
\* address of the VRPSolution it returns
HeapSolveVRPClassical(h, problemRef) ==
    LET vehicles == h[problemRef].vehicles
        distanceMatrix == h[problemRef].distanceMatrix
        n == Rows(h[h[problemRef].nodes])
        v == Rows(h[vehicles])
        h1 == MapRoutes(h, vehicles)
        routes == Len(h1)
        assigned == HeapClassicalLoop(h1, distanceMatrix, routes, v, NonDepotNodes(n), 0)
        h2 == HeapReturnToDepot(assigned.heap, distanceMatrix, routes, 1)
    IN  IF assigned.error
        THEN [heap |-> assigned.heap, ref |-> 0, status |-> "TypeError"]
        ELSE [heap |-> Append(h2, [routes |-> routes,
                                   totalDistance |-> HeapTotalDistance(h2, routes),
                                   solver |-> "classical"]),
              ref |-> Len(h2) + 1, status |-> "ok"]

\* variant: the decoder clears each bit of the vector it has followed
RECURSIVE HeapDecodeWhile_clearsBits(_, _, _, _, _, _, _, _, _)
HeapDecodeWhile_clearsBits(h, solution, problemRef, route, n, v, veh, currentNode, visitedNodes) ==
    IF Cardinality(visitedNodes) >= n THEN h
    ELSE LET nextNode == ScanNext(h[solution], n, v, currentNode, veh, visitedNodes, 0)
             h1 == [h EXCEPT ![h[route].path] = Append(@, nextNode)]
             h2 == [h1 EXCEPT ![route].distance =
                       @ + h1[h1[h1[problemRef].distanceMatrix][currentNode]][nextNode]]
             h3 == [h2 EXCEPT ![solution][index(currentNode, nextNode, veh, n, v)] = 0]
         IN  IF nextNode = -1 THEN h
             ELSE HeapDecodeWhile_clearsBits(h3, solution, problemRef, route, n, v, veh,
                                             nextNode, visitedNodes \cup {nextNode})

\* while (visitedNodes.size < n) { ... } for vehicle veh: the scan of the
\* vector, routes[veh].path.push(nextNode),
\* routes[veh].distance += problem.distanceMatrix[currentNode][nextNode]
RECURSIVE HeapDecodeWhile(_, _, _, _, _, _, _, _, _)
HeapDecodeWhile(h, solution, problemRef, route, n, v, veh, currentNode, visitedNodes) ==
    IF Cardinality(visitedNodes) >= n THEN h
    ELSE LET nextNode == ScanNext(h[solution], n, v, currentNode, veh, visitedNodes, 0)
             h1 == [h EXCEPT ![h[route].path] = Append(@, nextNode)]
             h2 == [h1 EXCEPT ![route].distance =
                       @ + h1[h1[h1[problemRef].distanceMatrix][currentNode]][nextNode]]
         IN  IF nextNode = -1 THEN h
             ELSE HeapDecodeWhile(h2, solution, problemRef, route, n, v, veh,
                                  nextNode, visitedNodes \cup {nextNode})

\* if (routes[veh].path.length > 1) { push(0); distance += distanceMatrix[lastNode][0] }
HeapDecodeClose(h, problemRef, route) ==
    LET lastNode == Last(h[h[route].path])
        h1 == [h EXCEPT ![h[route].path] = Append(@, 0)]
        h2 == [h1 EXCEPT ![route].distance =
                  @ + h1[h1[h1[problemRef].distanceMatrix][lastNode]][0]]
    IN  IF Len(h[h[route].path]) > 1 THEN h2 ELSE h

\* for (let veh = 0; veh < v; veh++) { ... } of the decoder, from veh on
RECURSIVE HeapDecodeVehicles(_, _, _, _, _, _, _)
HeapDecodeVehicles(h, solution, problemRef, routes, n, v, veh) ==
    IF veh >= v THEN h
    ELSE LET route == h[routes][veh + 1]
             h1 == HeapDecodeWhile(h, solution, problemRef, route, n, v, veh, 0, {0})
         IN  HeapDecodeVehicles(HeapDecodeClose(h1, problemRef, route),
                                solution, problemRef, routes, n, v, veh + 1)

\* routes.filter(route => route.path.length > 2) : a new array of the Route
\* objects that pass
HeapFilter(h, routes) ==
    Append(h, SelectSeq(h[routes], LAMBDA r : Len(h[h[r].path]) > 2))

\* decodeSolution(solution, problem): the heap when it returns and the
\* address of the Route[] it returns.  The first loop pushes one Route per
\* vehicle as vehicles.map does in the classical solver.
HeapDecodeSolution(h, solution, problemRef) ==
    LET vehicles == h[problemRef].vehicles
        n == Rows(h[h[problemRef].nodes])
        v == Rows(h[vehicles])
        h1 == MapRoutes(h, vehicles)
        routes == Len(h1)
        h2 == HeapDecodeVehicles(h1, solution, problemRef, routes, n, v, 0)
        h3 == HeapFilter(h2, routes)
    IN  [heap |-> h3, ref |-> Len(h3), status |-> "ok"]

\* variant: with more than one layer the sampler applies no jitter
RECURSIVE HeapSamplerWhile_layersDamp(_, _, _, _, _, _, _, _, _, _)
HeapSamplerWhile_layersDamp(h, solution, problemRef, params, n, v, veh, currentNode, remainingNodes, draws) ==
    IF Len(remainingNodes) = 0
    THEN [heap |-> h, currentNode |-> currentNode,
          remainingNodes |-> remainingNodes, draws |-> draws]
    ELSE LET damped == [t \in DOMAIN draws |->
                           IF h[params].p > 1 THEN JitterScale ELSE draws[t]]
             pick == PickJittered(MatrixAt(h, h[problemRef].distanceMatrix), currentNode,
                                  remainingNodes, damped, [node |-> -1, dist |-> 0])
             h1 == [h EXCEPT ![solution][samplerIdx(currentNode, pick.node, veh, n, v)] = 1]
         IN  IF pick.node # -1
             THEN HeapSamplerWhile_layersDamp(h1, solution, problemRef, params, n, v, veh,
                                              pick.node, Delete(remainingNodes, pick.node),
                                              pick.draws)
             ELSE [heap |-> h, currentNode |-> currentNode,
                   remainingNodes |-> remainingNodes, draws |-> pick.draws]

\* while (remainingNodes.size > 0) { ... } for vehicle veh: the jittered
\* pick, solution[idx] = 1, remainingNodes.delete(bestNode)
RECURSIVE HeapSamplerWhile(_, _, _, _, _, _, _, _, _, _)
HeapSamplerWhile(h, solution, problemRef, params, n, v, veh, currentNode, remainingNodes, draws) ==
    IF Len(remainingNodes) = 0
    THEN [heap |-> h, currentNode |-> currentNode,
          remainingNodes |-> remainingNodes, draws |-> draws]
    ELSE LET pick == PickJittered(MatrixAt(h, h[problemRef].distanceMatrix), currentNode,
                                  remainingNodes, draws, [node |-> -1, dist |-> 0])
             h1 == [h EXCEPT ![solution][samplerIdx(currentNode, pick.node, veh, n, v)] = 1]
         IN  IF pick.node # -1
             THEN HeapSamplerWhile(h1, solution, problemRef, params, n, v, veh,
                                   pick.node, Delete(remainingNodes, pick.node), pick.draws)
             ELSE [heap |-> h, currentNode |-> currentNode,
                   remainingNodes |-> remainingNodes, draws |-> pick.draws]

\* for (let veh = 0; veh < v && remainingNodes.size > 0; veh++) { ... } with
\* the return edge  if (currentNode !== 0) solution[idx] = 1 , from veh on
RECURSIVE HeapSamplerVehicles(_, _, _, _, _, _, _, _, _)
HeapSamplerVehicles(h, solution, problemRef, params, n, v, veh, remainingNodes, draws) ==
    IF ~(veh < v /\ Len(remainingNodes) > 0) THEN h
    ELSE LET after == HeapSamplerWhile(h, solution, problemRef, params, n, v, veh, 0,
                                       remainingNodes, draws)
             closed == [after.heap EXCEPT
                          ![solution][samplerIdx(after.currentNode, 0, veh, n, v)] = 1]
         IN  HeapSamplerVehicles(IF after.currentNode # 0 THEN closed ELSE after.heap,
                                 solution, problemRef, params, n, v, veh + 1,
                                 after.remainingNodes, after.draws)

\* mockQAOAExecution(quboMatrix, problem, params) on the given random draws:
\* the heap when it returns and the address of the vector it returns
HeapMockQAOAExecution(h, quboMatrix, problemRef, params, draws) ==
    LET n == Rows(h[h[problemRef].nodes])
        v == Rows(h[h[problemRef].vehicles])
        h1 == Append(h, ZeroVector(n * n * v))
        solution == Len(h1)
    IN  [heap |-> HeapSamplerVehicles(h1, solution, problemRef, params, n, v, 0,
                                      NonDepotNodes(n), draws),
         ref |-> solution, status |-> "ok"]

\* the += statements of a pass all go to rows of Q: the rows reached from
\* address m take the contents of M
StoreMatrix(h, m, M) ==
    [a \in 1..Len(h) |->
        IF \E i \in DOMAIN h[m] : h[m][i] = a
        THEN M[CHOOSE i \in DOMAIN h[m] : h[m][i] = a]
        ELSE h[a]]

\* vrpToQubo(problem, penalty): the new matrix Q, then the four passes on
\* it; the heap when it returns or throws and the address of Q
HeapVrpToQubo(h, problemRef, penalty) ==
    LET p == ProblemAt(h, problemRef)
        h0 == NewMatrix(h, ZeroMatrix(p.n * p.n * p.v))
        Q == Len(h0)
        h1 == StoreMatrix(h0, Q, ObjectivePass(MatrixAt(h0, Q), p.n, p.v,
                                    MatrixAt(h0, h0[problemRef].distanceMatrix)))
        h2 == StoreMatrix(h1, Q, DestinationPass(MatrixAt(h1, Q), p.n, p.v, penalty))
        h3 == StoreMatrix(h2, Q, SourcePass(MatrixAt(h2, Q), p.n, p.v, penalty))
        h4 == StoreMatrix(h3, Q, ContinuityPass(MatrixAt(h3, Q), p.n, p.v, penalty))
    IN  IF vrpToQuboStatus(p, penalty) # "ok"
        THEN [heap |-> h0, ref |-> 0, status |-> "TypeError"]
        ELSE [heap |-> h4, ref |-> Q, status |-> "ok"]

\* solveVRPWithQAOA(problem, params) on the given random draws, from its
\* second statement on: encoded is what  vrpToQubo(problem)  returned; then
\* the sampler, the decoder, the total and the VRPSolution object
HeapSolveVRPWithQAOA(encoded, problemRef, params, draws) ==
    LET vector == HeapMockQAOAExecution(encoded.heap, encoded.ref, problemRef, params, draws)
        routes == HeapDecodeSolution(vector.heap, vector.ref, problemRef)
    IN  IF encoded.status # "ok"
        THEN [heap |-> encoded.heap, ref |-> 0, status |-> "TypeError"]
        ELSE [heap |-> Append(routes.heap,
                              [routes |-> routes.ref,
                               totalDistance |-> HeapTotalDistance(routes.heap, routes.ref),
                               solver |-> "quantum"]),
              ref |-> Len(routes.heap) + 1, status |-> "ok"]

\* ============================================================= state
VARIABLES
    problem,            \* the VRPProblem the calls are made on
    classicalSolution,  \* result of the last solveVRPClassical call
    quantumSolution,    \* result of the last solveVRPWithQAOA call
    sampled,            \* sampler's vector and per-vehicle choices in that call
    vec,                \* binary vector handed to decodeSolution
    decoded,            \* routes of the last decodeSolution call
    prevDecoded,        \* routes of the call before it
    decodeCalls,        \* number of decodeSolution calls made (capped at 2)
    penalty,            \* penalty argument of vrpToQubo
    quboPasses,         \* the matrix after each pass of the last vrpToQubo call
    quboStatus,         \* how the last vrpToQubo call ended
    generated,          \* arguments and result of generateRandomDistanceMatrix
    mem,                \* the heap the calls run on, and the calls made
    loop,               \* the solver loop being stepped through
    conc,               \* the two solvers of solveWithBoth, run side by side
    view,               \* node coordinates and scale divisors of the canvas
    ui                  \* state of the Index page

vars == <<problem, classicalSolution, quantumSolution, sampled, vec, decoded,
          prevDecoded, decodeCalls, penalty, quboPasses, quboStatus, generated,
          mem, loop, conc, view, ui>>

\* QAOAParams values a caller may pass
Params ==
    { [p |-> 1, backend |-> "qasm_simulator", shots |-> 1000],
      [p |-> 2, backend |-> "aer_simulator", shots |-> 100] }

\* number of Math.random() calls one sampler run makes on problem p
NumDraws(p) == IF p.v = 0 \/ p.n = 0 THEN 0 ELSE (p.n * (p.n - 1)) \div 2

\* binary vectors of length numVars with at most bits bits set
VectorsUpTo(numVars, bits) ==
    { [a \in 0..(numVars - 1) |-> IF \E t \in 1..bits : c[t] = a THEN 1 ELSE 0] :
      c \in [1..bits -> (-1)..(numVars - 1)] }

\* binary vectors of length numVars with at most MaxBits bits set
Vectors(numVars) == VectorsUpTo(numVars, MaxBits)

NoSample == [solution |-> <<>>, chosen |-> <<>>]

\* the values of generated, mem and loop before any call
NoMatrix ==
    [numNodes |-> 0, maxDistance |-> 1, draws |-> <<>>, matrix |-> <<>>, done |-> FALSE]

NoMem == [heap |-> <<>>, problem |-> 0, params |-> {}, calls |-> <<>>]

NoLoop == [fn |-> "none", pc |-> "none", veh |-> 0, st |-> <<>>, routes |-> <<>>]

\* the classical solver's locals at the test of its while loop
ClassicalEntry(p) ==
    [pc |-> "while",
     st |-> [routes |-> InitialRoutes(p.v),
             unassigned |-> NonDepotNodes(p.n),
             currentVehicle |-> 0,
             error |-> FALSE],
     result |-> NoResult]

\* solveVRPWithQAOA's locals before its first statement: pc runs through
\* "encode", the sampler's "for" / "while", the decoder's "dfor" / "dwhile"
\* and "done"; st are the sampler's locals, dst the decoder's
QuantumEntry(p) ==
    [pc |-> "encode",
     veh |-> 0,
     st |-> [solution |-> ZeroVector(p.n * p.n * p.v),
             remainingNodes |-> NonDepotNodes(p.n),
             draws |-> <<>>,
             chosen |-> [k \in 1..p.v |-> <<>>],
             currentNode |-> 0],
     dst |-> DecodeStart(0),
     routes |-> <<>>,
     result |-> NoResult]

\* the values of conc, view and ui before anything ran
NoConc ==
    [started |-> FALSE, cl |-> ClassicalEntry(NoProblem), qa |-> QuantumEntry(NoProblem),
     draws |-> <<>>]

NoView == [nodes |-> <<>>, divisorX |-> 1, divisorY |-> 1, done |-> FALSE]

NoUI ==
    [problem |-> NoProblem, hasProblem |-> FALSE,
     quantumSolution |-> NoResult, classicalSolution |-> NoResult,
     quantumFrom |-> NoProblem, classicalFrom |-> NoProblem,
     isLoading |-> FALSE, activeSolver |-> "null",
     running |-> "none", snapshot |-> NoProblem,
     outcome |-> [quantum |-> NoResult, classical |-> NoResult],
     qaoaParams |-> [p |-> 1, backend |-> "qasm_simulator", shots |-> 1000]]

InitIdle ==
    /\ classicalSolution = NoResult
    /\ quantumSolution = NoResult
    /\ sampled = NoSample
    /\ decoded = <<>>
    /\ prevDecoded = <<>>
    /\ decodeCalls = 0
    /\ quboPasses = <<>>
    /\ quboStatus = "none"
    /\ generated = NoMatrix
    /\ mem = NoMem
    /\ loop = NoLoop
    /\ conc = NoConc
    /\ view = NoView
    /\ ui = NoUI

\* ----------------------------------------------------------- the solvers
Init ==
    /\ problem \in Problems(Dists) \cup Problems({0}) \cup {ExampleProblem}
    /\ vec = <<>>
    /\ penalty = DefaultPenalty
    /\ InitIdle

CallClassical ==
    /\ classicalSolution' = solveVRPClassical(problem)
    /\ UNCHANGED <<problem, quantumSolution, sampled, vec, decoded, prevDecoded,
                   decodeCalls, penalty, quboPasses,
                   quboStatus, generated, mem, loop, conc, view, ui>>

CallQAOA ==
    \E params \in Params, draws \in [1..NumDraws(problem) -> Jitter] :
        /\ quantumSolution' = solveVRPWithQAOA(problem, params, draws)
        /\ sampled' = LET run == SamplerRun(problem, draws)
                      IN  [solution |-> run.solution, chosen |-> run.chosen]
        /\ UNCHANGED <<problem, classicalSolution, vec, decoded, prevDecoded,
                       decodeCalls, penalty, quboPasses,
                       quboStatus, generated, mem, loop, conc, view, ui>>

Next == CallClassical \/ CallQAOA

Spec == Init /\ [][Next]_vars

\* ----------------------------------------------------------- the decoder
InitDecode ==
    /\ problem \in LineProblems
    /\ vec \in Vectors(problem.n * problem.n * problem.v)
    /\ penalty = DefaultPenalty
    /\ InitIdle

CallDecode ==
    /\ decoded' = decodeSolution(vec, problem)
    /\ prevDecoded' = decoded
    /\ decodeCalls' = IF decodeCalls < 2 THEN decodeCalls + 1 ELSE decodeCalls
    /\ UNCHANGED <<problem, classicalSolution, quantumSolution, sampled, vec,
                   penalty, quboPasses,
                   quboStatus, generated, mem, loop, conc, view, ui>>

NextDecode == CallDecode

SpecDecode == InitDecode /\ [][NextDecode]_vars

\* ----------------------------------------------------------- the encoder
\* penalty arguments a caller may pass, the non-positive ones included
Penalties == {-1, 0, 1, DefaultPenalty}

\* problems whose distance matrix has one row and column fewer, or more, than
\* there are nodes
MismatchedProblems ==
    UNION { { [n |-> n, v |-> v, dm |-> LineMatrix(m)] :
                v \in 0..MaxVehicles, m \in {n - 1, n + 1} \ {-1} } :
            n \in 0..MaxNodes }

InitQubo ==
    /\ problem \in Problems({1, MaxDist}) \cup MismatchedProblems
    /\ vec = <<>>
    /\ penalty \in Penalties
    /\ InitIdle

CallVrpToQubo ==
    /\ quboStatus' = vrpToQuboStatus(problem, penalty)
    /\ quboPasses' = IF vrpToQuboStatus(problem, penalty) = "ok"
                     THEN vrpToQuboPasses(problem, penalty)
                     ELSE <<>>
    /\ UNCHANGED <<problem, classicalSolution, quantumSolution, sampled, vec,
                   decoded, prevDecoded, decodeCalls, penalty,
                   generated, mem, loop, conc, view, ui>>

NextQubo == CallVrpToQubo

SpecQubo == InitQubo /\ [][NextQubo]_vars

\* --------------------------------------------------------- the generator
InitGen ==
    /\ problem = NoProblem
    /\ vec = <<>>
    /\ penalty = DefaultPenalty
    /\ InitIdle

\* one call, with a whole number of nodes, a whole maxDistance of at least 1
\* and the random numbers it draws
CallGenerate ==
    /\ ~generated.done
    /\ \E numNodes \in 0..MaxNodes, maxDistance \in 1..MaxDist :
           \E draws \in [UpperPairs(numNodes) -> 0..(RandomSteps - 1)] :
               generated' = [numNodes |-> numNodes,
                             maxDistance |-> maxDistance,
                             draws |-> draws,
                             matrix |-> generateRandomDistanceMatrix(numNodes, maxDistance, draws),
                             done |-> TRUE]
    /\ UNCHANGED <<problem, classicalSolution, quantumSolution, sampled, vec, decoded,
                   prevDecoded, decodeCalls, penalty, quboPasses, quboStatus,
                   mem, loop, conc, view, ui>>

NextGen == CallGenerate

SpecGen == InitGen /\ [][NextGen]_vars

\* ------------------------------------------------- the loops, step by step
\* The loops of solveVRPClassical, mockQAOAExecution and decodeSolution taken
\* one iteration at a time.  loop.fn is the function being run, loop.pc the
\* loop it is in ("for": at the test of the per-vehicle loop, "while": at the
\* test of the inner loop, "done": returned), loop.veh the vehicle of the
\* per-vehicle loop, loop.st the locals of the iteration operators above and
\* loop.routes the routes completed so far.
LoopProblems == { q \in LineProblems \cup {ExampleProblem} : q.v >= 1 }

\* the vector handed to the decoder is one the sampler made for the problem
\* (a complete chain) or one with a few bits set (a chain that breaks off)

\* problems with more than twice as many customers as vehicles: the turn comes
\* back to every vehicle at least twice, and the shares are unequal
RoundRobinNodes == 2 * MaxVehicles + 2

RoundRobinProblems ==
    { [n |-> RoundRobinNodes, v |-> v, dm |-> LineMatrix(RoundRobinNodes)] :
        v \in 1..MaxVehicles }

InitLoops ==
    /\ \/ /\ problem \in LoopProblems
          /\ vec \in VectorsUpTo(problem.n * problem.n * problem.v, MaxBits - 1)
                      \cup { mockQAOAExecution(<<>>, problem, params, draws) :
                               params \in Params,
                               draws \in [1..NumDraws(problem) -> Jitter] }
       \/ /\ problem \in RoundRobinProblems
          /\ vec = ZeroVector(problem.n * problem.n * problem.v)
    /\ penalty = DefaultPenalty
    /\ InitIdle

LoopFrame ==
    UNCHANGED <<problem, classicalSolution, quantumSolution, sampled, vec, decoded,
                prevDecoded, decodeCalls, penalty, quboPasses, quboStatus,
                generated, mem, conc, view, ui>>

\* solveVRPClassical up to the test of its while loop
EnterClassical ==
    /\ loop.fn = "none"
    /\ loop' = [fn |-> "classical", pc |-> "while", veh |-> 0,
                st |-> [routes |-> InitialRoutes(problem.v),
                        unassigned |-> NonDepotNodes(problem.n),
                        currentVehicle |-> 0,
                        error |-> FALSE],
                routes |-> <<>>]
    /\ LoopFrame

\* one iteration of  while (unassignedNodes.size > 0)
ClassicalWhile ==
    /\ loop.fn = "classical" /\ loop.pc = "while"
    /\ Len(loop.st.unassigned) > 0
    /\ loop' = [loop EXCEPT !.st = ClassicalIter(problem.dm, problem.v, loop.st)]
    /\ LoopFrame

\* the loop is left; every vehicle returns to the depot
ClassicalReturn ==
    /\ loop.fn = "classical" /\ loop.pc = "while"
    /\ Len(loop.st.unassigned) = 0
    /\ loop' = [loop EXCEPT
                   !.pc = "done",
                   !.routes = [k \in 1..Len(loop.st.routes) |->
                                  ReturnToDepot(problem.dm, loop.st.routes[k])]]
    /\ LoopFrame

\* mockQAOAExecution up to the test of its per-vehicle loop
EnterSampler ==
    /\ loop.fn = "none"
    /\ loop' = [fn |-> "sampler", pc |-> "for", veh |-> 0,
                st |-> [solution |-> ZeroVector(problem.n * problem.n * problem.v),
                        remainingNodes |-> NonDepotNodes(problem.n),
                        draws |-> <<>>,
                        chosen |-> [k \in 1..problem.v |-> <<>>],
                        currentNode |-> 0],
                routes |-> <<>>]
    /\ LoopFrame

\* for (let veh = 0; veh < v && remainingNodes.size > 0; veh++) : the test
SamplerFor ==
    /\ loop.fn = "sampler" /\ loop.pc = "for"
    /\ loop' = IF loop.veh < problem.v /\ Len(loop.st.remainingNodes) > 0
               THEN [loop EXCEPT !.pc = "while", !.st.currentNode = 0]
               ELSE [loop EXCEPT !.pc = "done"]
    /\ LoopFrame

\* variant: an iteration of the sampler's while loop picks a node and leaves
\* it in remainingNodes
SamplerWhile_keepsNode ==
    /\ loop.fn = "sampler" /\ loop.pc = "while"
    /\ Len(loop.st.remainingNodes) > 0
    /\ \E draws \in [1..Len(loop.st.remainingNodes) -> Jitter] :
           LET next == SamplerIter(problem, loop.veh, [loop.st EXCEPT !.draws = draws],
                                   loop.st.currentNode)
           IN  loop' = [loop EXCEPT !.st = [next EXCEPT
                                              !.remainingNodes = loop.st.remainingNodes]]
    /\ LoopFrame

\* one iteration of  while (remainingNodes.size > 0) , with the random draws
\* it makes; on break the vehicle is closed and the next one is tested
SamplerWhile ==
    /\ loop.fn = "sampler" /\ loop.pc = "while"
    /\ Len(loop.st.remainingNodes) > 0
    /\ \E draws \in [1..Len(loop.st.remainingNodes) -> Jitter] :
           LET next == SamplerIter(problem, loop.veh, [loop.st EXCEPT !.draws = draws],
                                   loop.st.currentNode)
           IN  loop' = IF next.remainingNodes # loop.st.remainingNodes
                       THEN [loop EXCEPT !.st = next]
                       ELSE [loop EXCEPT !.st = SamplerClose(problem, loop.veh, next),
                                         !.veh = loop.veh + 1,
                                         !.pc = "for"]
    /\ LoopFrame

\* the while loop is left because remainingNodes is empty
SamplerNextVehicle ==
    /\ loop.fn = "sampler" /\ loop.pc = "while"
    /\ Len(loop.st.remainingNodes) = 0
    /\ loop' = [loop EXCEPT !.st = SamplerClose(problem, loop.veh, loop.st),
                            !.veh = loop.veh + 1,
                            !.pc = "for"]
    /\ LoopFrame

\* decodeSolution up to the test of its per-vehicle loop
EnterDecoder ==
    /\ loop.fn = "none"
    /\ loop' = [fn |-> "decoder", pc |-> "for", veh |-> 0,
                st |-> DecodeStart(0), routes |-> <<>>]
    /\ LoopFrame

\* for (let veh = 0; veh < v; veh++) : the test, and the filter on return
DecoderFor ==
    /\ loop.fn = "decoder" /\ loop.pc = "for"
    /\ loop' = IF loop.veh < problem.v
               THEN [loop EXCEPT !.pc = "while", !.st = DecodeStart(loop.veh)]
               ELSE [loop EXCEPT !.pc = "done", !.routes = FilterUnused(loop.routes)]
    /\ LoopFrame

\* one iteration of  while (visitedNodes.size < n) ; on break the route is
\* closed and the next vehicle is tested
DecoderWhile ==
    /\ loop.fn = "decoder" /\ loop.pc = "while"
    /\ Cardinality(loop.st.visitedNodes) < problem.n
    /\ LET next == DecodeIter(vec, problem.n, problem.v, problem.dm, loop.veh, loop.st)
       IN  loop' = IF next # loop.st
                   THEN [loop EXCEPT !.st = next]
                   ELSE [loop EXCEPT
                           !.routes = Append(loop.routes, DecodeClose(problem.dm, next.route)),
                           !.veh = loop.veh + 1,
                           !.pc = "for"]
    /\ LoopFrame

\* the while loop is left because every node is visited
DecoderNextVehicle ==
    /\ loop.fn = "decoder" /\ loop.pc = "while"
    /\ Cardinality(loop.st.visitedNodes) >= problem.n
    /\ loop' = [loop EXCEPT
                   !.routes = Append(loop.routes, DecodeClose(problem.dm, loop.st.route)),
                   !.veh = loop.veh + 1,
                   !.pc = "for"]
    /\ LoopFrame

StepLoops ==
    \/ ClassicalWhile \/ ClassicalReturn
    \/ SamplerFor \/ SamplerWhile \/ SamplerNextVehicle
    \/ DecoderFor \/ DecoderWhile \/ DecoderNextVehicle

NextLoops == EnterClassical \/ EnterSampler \/ EnterDecoder \/ StepLoops

\* a function that was entered keeps running: the calls are synchronous
SpecLoops == InitLoops /\ [][NextLoops]_vars /\ WF_vars(StepLoops)

\* -------------------------------------------- the two solvers side by side
\* Promise.all([solveVRPWithQAOA(problem, qaoaParams), solveVRPClassical(problem)])
\* with the steps of the two calls taken in any order.

\* the next step of solveVRPClassical: one iteration of its while loop, or
\* the return (a TypeError when there is a node to assign and no vehicle)
ClassicalNext(p, c) ==
    IF Len(c.st.unassigned) = 0
    THEN LET routes == [k \in 1..Len(c.st.routes) |-> ReturnToDepot(p.dm, c.st.routes[k])]
         IN  [c EXCEPT !.pc = "done",
                       !.result = [status |-> "ok", routes |-> routes,
                                   totalDistance |-> TotalDistance(routes),
                                   solver |-> "classical"]]
    ELSE IF p.v = 0
    THEN [c EXCEPT !.pc = "done",
                   !.result = [status |-> "TypeError", routes |-> <<>>,
                               totalDistance |-> 0, solver |-> "none"]]
    ELSE [c EXCEPT !.st = ClassicalIter(p.dm, p.v, c.st)]

\* the random numbers the next step of solveVRPWithQAOA draws: one per
\* remaining node in an iteration of the sampler's while loop, else none
DrawsOfStep(q) ==
    IF q.pc = "while" THEN [1..Len(q.st.remainingNodes) -> Jitter] ELSE {<<>>}

\* the next step of solveVRPWithQAOA: the encoder, a loop test or one loop
\* iteration of the sampler, then of the decoder on the sampler's vector
QuantumNext(p, q, draws) ==
    IF q.pc = "encode"
    THEN IF vrpToQuboStatus(p, DefaultPenalty) = "ok"
         THEN [q EXCEPT !.pc = "for"]
         ELSE [q EXCEPT !.pc = "done",
                        !.result = [status |-> "TypeError", routes |-> <<>>,
                                    totalDistance |-> 0, solver |-> "none"]]
    ELSE IF q.pc = "for"
    THEN IF q.veh < p.v /\ Len(q.st.remainingNodes) > 0
         THEN [q EXCEPT !.pc = "while", !.st.currentNode = 0]
         ELSE [q EXCEPT !.pc = "dfor", !.veh = 0]
    ELSE IF q.pc = "while"
    THEN LET next == SamplerIter(p, q.veh, [q.st EXCEPT !.draws = draws], q.st.currentNode)
         IN  IF Len(q.st.remainingNodes) > 0 /\ next.remainingNodes # q.st.remainingNodes
             THEN [q EXCEPT !.st = next]
             ELSE [q EXCEPT !.st = SamplerClose(p, q.veh, q.st),
                            !.veh = q.veh + 1,
                            !.pc = "for"]
    ELSE IF q.pc = "dfor"
    THEN IF q.veh < p.v
         THEN [q EXCEPT !.pc = "dwhile", !.dst = DecodeStart(q.veh)]
         ELSE LET routes == FilterUnused(q.routes)
              IN  [q EXCEPT !.pc = "done",
                            !.result = [status |-> "ok", routes |-> routes,
                                        totalDistance |-> TotalDistance(routes),
                                        solver |-> "quantum"]]
    ELSE LET next == DecodeIter(q.st.solution, p.n, p.v, p.dm, q.veh, q.dst)
         IN  IF Cardinality(q.dst.visitedNodes) < p.n /\ next # q.dst
             THEN [q EXCEPT !.dst = next]
             ELSE [q EXCEPT !.routes = Append(q.routes, DecodeClose(p.dm, q.dst.route)),
                            !.veh = q.veh + 1,
                            !.pc = "dfor"]

InitBoth ==
    /\ problem \in LineProblems \cup {ExampleProblem}
    /\ vec = <<>>
    /\ penalty = DefaultPenalty
    /\ InitIdle

BothFrame ==
    UNCHANGED <<problem, classicalSolution, quantumSolution, sampled, vec, decoded,
                prevDecoded, decodeCalls, penalty, quboPasses, quboStatus,
                generated, mem, loop, view, ui>>

\* both functions are called on the same problem object
StartBoth ==
    /\ ~conc.started
    /\ conc' = [started |-> TRUE, cl |-> ClassicalEntry(problem),
                qa |-> QuantumEntry(problem), draws |-> <<>>]
    /\ BothFrame

BothClassical ==
    /\ conc.started
    /\ conc.cl.pc # "done"
    /\ conc' = [conc EXCEPT !.cl = ClassicalNext(problem, conc.cl)]
    /\ BothFrame

\* variant: the sampler and the classical solver work on one node set, so a
\* node the sampler takes is gone from unassignedNodes too
BothQuantum_sharedNodes ==
    /\ conc.started
    /\ conc.qa.pc # "done"
    /\ \E draws \in DrawsOfStep(conc.qa) :
           LET next == QuantumNext(problem, conc.qa, draws)
           IN  conc' = [conc EXCEPT
                          !.qa = next,
                          !.draws = conc.draws \o draws,
                          !.cl.st.unassigned =
                              SelectSeq(@, LAMBDA x :
                                  \E t \in 1..Len(next.st.remainingNodes) :
                                      next.st.remainingNodes[t] = x)]
    /\ BothFrame

\* conc.draws keeps the random numbers drawn so far, in order
BothQuantum ==
    /\ conc.started
    /\ conc.qa.pc # "done"
    /\ \E draws \in DrawsOfStep(conc.qa) :
           conc' = [conc EXCEPT !.qa = QuantumNext(problem, conc.qa, draws),
                                !.draws = conc.draws \o draws]
    /\ BothFrame

NextBoth == StartBoth \/ BothClassical \/ BothQuantum

SpecBoth == InitBoth /\ [][NextBoth]_vars

\* ------------------------------------------------------ RouteVisualization
\* Math.min(...xs) and Math.max(...xs) of a non-empty sequence of numbers
MinOf(xs) == CHOOSE m \in { xs[t] : t \in DOMAIN xs } : \A t \in DOMAIN xs : m <= xs[t]

MaxOf(xs) == CHOOSE m \in { xs[t] : t \in DOMAIN xs } : \A t \in DOMAIN xs : m >= xs[t]

\* node positions handed to the canvas: one to MaxNodes nodes on a small grid
Layouts ==
    UNION { [1..n -> [x : 0..(MaxDist - 1), y : 0..(MaxDist - 1)]] : n \in 1..MaxNodes }

InitView ==
    /\ problem = NoProblem
    /\ vec = <<>>
    /\ penalty = DefaultPenalty
    /\ InitIdle

\* the drawing effect up to the scale factors:
\*   scaleX = (width - 2 * margin) / (maxX - minX)
\*   scaleY = (height - 2 * margin) / (maxY - minY)
\* view.divisorX and view.divisorY are the two divisors as the code forms them
DrawRoutes ==
    /\ ~view.done
    /\ \E nodes \in Layouts :
           LET xs == [t \in DOMAIN nodes |-> nodes[t].x]
               ys == [t \in DOMAIN nodes |-> nodes[t].y]
           IN  view' = [nodes |-> nodes,
                        divisorX |-> MaxOf(xs) - MinOf(xs),
                        divisorY |-> MaxOf(ys) - MinOf(ys),
                        done |-> TRUE]
    /\ UNCHANGED <<problem, classicalSolution, quantumSolution, sampled, vec, decoded,
                   prevDecoded, decodeCalls, penalty, quboPasses, quboStatus,
                   generated, mem, loop, conc, ui>>

NextView == DrawRoutes

SpecView == InitView /\ [][NextView]_vars

\* ------------------------------------------------------ Index page
\* ui.problem, ui.qaoaParams, ui.quantumSolution, ui.classicalSolution,
\* ui.isLoading and ui.activeSolver are the page's useState values (hasProblem: problem is
\* not undefined).  ui.running names the solve function suspended at its
\* await, ui.snapshot the problem its closure holds, ui.outcome what the
\* awaited promises settled to; quantumFrom and classicalFrom remember the
\* problem a stored solution was computed from.
MinSliderNodes == 3

MinSliderVehicles == 1

\* a promise that was rejected
Rejected == [status |-> "rejected", routes |-> <<>>, totalDistance |-> 0, solver |-> "none"]

NoOutcome == [quantum |-> NoResult, classical |-> NoResult]

Fulfilled(result) == result.status = "ok"

\* the default of generateRandomDistanceMatrix's maxDistance
DefaultMaxDistance == 100

\* Math.random() of one generateRandomDistanceMatrix(numNodes) call, one
\* number per pair of nodes, in units of 1 / DefaultMaxDistance: every value
\* below MaxDist / DefaultMaxDistance
UIDraws(numNodes) == [UpperPairs(numNodes) -> 0..(MaxDist - 1)]

\* generateRandomDistanceMatrix(numNodes) with maxDistance at its default:
\*   distance = Math.floor(Math.random() * maxDistance) + 1
\* for every i < j, written to matrix[i][j] and matrix[j][i]
generateRandomDistanceMatrixDefault(numNodes, draws) ==
    [i \in 0..(numNodes - 1) |-> [j \in 0..(numNodes - 1) |->
        IF i = j THEN 0
        ELSE LET k == IF i < j THEN draws[<<i, j>>] ELSE draws[<<j, i>>]
             IN  (k * DefaultMaxDistance) \div DefaultMaxDistance + 1]]

\* the positions of the vehicles slider that are used: its two lowest
SliderVehicles == {MinSliderVehicles, MinSliderVehicles + 1}

\* the problems ProblemInput.generateProblem can hand over: numNodes from the
\* nodes slider (at its minimum), numVehicles from the vehicles slider, every
\* distance from 1 to MaxDist for every pair of nodes
UIProblems ==
    { [n |-> MinSliderNodes, v |-> numVehicles,
       dm |-> generateRandomDistanceMatrixDefault(MinSliderNodes, draws)] :
        numVehicles \in SliderVehicles,
        draws \in UIDraws(MinSliderNodes) }

\* the initial value of the page's qaoaParams state
QaoaParams == [p |-> 1, backend |-> "qasm_simulator", shots |-> 1000]

\* the partial updates the QAOA controls send to updateQAOAParams: a number
\* of layers, a backend or a number of shots (two values of each)
QaoaUpdates ==
    { [field |-> "p", value |-> q.p] : q \in Params }
        \cup { [field |-> "backend", value |-> q.backend] : q \in Params }
        \cup { [field |-> "shots", value |-> q.shots] : q \in Params }

\* const updatedParams = { ...qaoaParams, ...updates }
updateQAOAParams(qaoaParams, updates) ==
    [p |-> IF updates.field = "p" THEN updates.value ELSE qaoaParams.p,
     backend |-> IF updates.field = "backend" THEN updates.value ELSE qaoaParams.backend,
     shots |-> IF updates.field = "shots" THEN updates.value ELSE qaoaParams.shots]

\* what  await solveVRPWithQAOA(problem, qaoaParams)  can settle to
QuantumOutcomes(p, qaoaParams) ==
    { solveVRPWithQAOA(p, qaoaParams, draws) : draws \in [1..NumDraws(p) -> Jitter] }
        \cup {Rejected}

\* what  await solveVRPClassical(problem)  can settle to
ClassicalOutcomes(p) == {solveVRPClassical(p), Rejected}

InitUI ==
    /\ problem = NoProblem
    /\ vec = <<>>
    /\ penalty = DefaultPenalty
    /\ InitIdle

UIFrame ==
    UNCHANGED <<problem, classicalSolution, quantumSolution, sampled, vec, decoded,
                prevDecoded, decodeCalls, penalty, quboPasses, quboStatus,
                generated, mem, loop, conc, view>>

\* variant: a new problem leaves the stored solutions in place
handleProblemGenerated_keepsSolutions ==
    /\ ~ui.isLoading
    /\ \E newProblem \in UIProblems :
           ui' = [ui EXCEPT !.problem = newProblem,
                            !.hasProblem = TRUE,
                            !.activeSolver = "null"]
    /\ UIFrame

\* the Generate button (disabled while isLoading): generateProblem, then
\* handleProblemGenerated
handleProblemGenerated ==
    /\ ~ui.isLoading
    /\ \E newProblem \in UIProblems :
           ui' = [ui EXCEPT !.problem = newProblem,
                            !.hasProblem = TRUE,
                            !.quantumSolution = NoResult,
                            !.classicalSolution = NoResult,
                            !.quantumFrom = NoProblem,
                            !.classicalFrom = NoProblem,
                            !.activeSolver = "null"]
    /\ UIFrame

\* a QAOA control (disabled while isLoading) is used: updateQAOAParams, then
\* handleQAOAParamsChange
handleQAOAParamsChange ==
    /\ ~ui.isLoading
    /\ \E updates \in QaoaUpdates :
           ui' = [ui EXCEPT !.qaoaParams = updateQAOAParams(ui.qaoaParams, updates)]
    /\ UIFrame

\* the three solve buttons (disabled without a problem and while isLoading):
\* the handler up to its await; the solvers have run and their promises are
\* settled, the rest of the handler is queued
solveWithQuantum ==
    /\ ui.hasProblem /\ ~ui.isLoading
    /\ \E q \in QuantumOutcomes(ui.problem, ui.qaoaParams) :
           ui' = [ui EXCEPT !.isLoading = TRUE,
                            !.activeSolver = "quantum",
                            !.running = "quantum",
                            !.snapshot = ui.problem,
                            !.outcome = [quantum |-> q, classical |-> NoResult]]
    /\ UIFrame

solveWithClassical ==
    /\ ui.hasProblem /\ ~ui.isLoading
    /\ \E c \in ClassicalOutcomes(ui.problem) :
           ui' = [ui EXCEPT !.isLoading = TRUE,
                            !.activeSolver = "classical",
                            !.running = "classical",
                            !.snapshot = ui.problem,
                            !.outcome = [quantum |-> NoResult, classical |-> c]]
    /\ UIFrame

solveWithBoth ==
    /\ ui.hasProblem /\ ~ui.isLoading
    /\ \E q \in QuantumOutcomes(ui.problem, ui.qaoaParams), c \in ClassicalOutcomes(ui.problem) :
           ui' = [ui EXCEPT !.isLoading = TRUE,
                            !.activeSolver = "both",
                            !.running = "both",
                            !.snapshot = ui.problem,
                            !.outcome = [quantum |-> q, classical |-> c]]
    /\ UIFrame

\* variant: without the finally block a rejection leaves isLoading set
ResumeQuantum_noFinally ==
    /\ ui.running = "quantum"
    /\ ui' = IF Fulfilled(ui.outcome.quantum)
             THEN [ui EXCEPT !.quantumSolution = ui.outcome.quantum,
                             !.quantumFrom = ui.snapshot,
                             !.isLoading = FALSE,
                             !.running = "none",
                             !.snapshot = NoProblem,
                             !.outcome = NoOutcome]
             ELSE [ui EXCEPT !.running = "none",
                             !.snapshot = NoProblem,
                             !.outcome = NoOutcome]
    /\ UIFrame

\* the rest of solveWithQuantum after its await: the try block's
\* setQuantumSolution or the catch block, then finally
ResumeQuantum ==
    /\ ui.running = "quantum"
    /\ ui' = IF Fulfilled(ui.outcome.quantum)
             THEN [ui EXCEPT !.quantumSolution = ui.outcome.quantum,
                             !.quantumFrom = ui.snapshot,
                             !.isLoading = FALSE,
                             !.running = "none",
                             !.snapshot = NoProblem,
                             !.outcome = NoOutcome]
             ELSE [ui EXCEPT !.isLoading = FALSE,
                             !.running = "none",
                             !.snapshot = NoProblem,
                             !.outcome = NoOutcome]
    /\ UIFrame

\* the rest of solveWithClassical after its await
ResumeClassical ==
    /\ ui.running = "classical"
    /\ ui' = IF Fulfilled(ui.outcome.classical)
             THEN [ui EXCEPT !.classicalSolution = ui.outcome.classical,
                             !.classicalFrom = ui.snapshot,
                             !.isLoading = FALSE,
                             !.running = "none",
                             !.snapshot = NoProblem,
                             !.outcome = NoOutcome]
             ELSE [ui EXCEPT !.isLoading = FALSE,
                             !.running = "none",
                             !.snapshot = NoProblem,
                             !.outcome = NoOutcome]
    /\ UIFrame

\* the rest of solveWithBoth after  await Promise.all([...]) : Promise.all
\* is fulfilled when both promises are, and rejected when either is
ResumeBoth ==
    /\ ui.running = "both"
    /\ ui' = IF Fulfilled(ui.outcome.quantum) /\ Fulfilled(ui.outcome.classical)
             THEN [ui EXCEPT !.quantumSolution = ui.outcome.quantum,
                             !.classicalSolution = ui.outcome.classical,
                             !.quantumFrom = ui.snapshot,
                             !.classicalFrom = ui.snapshot,
                             !.isLoading = FALSE,
                             !.running = "none",
                             !.snapshot = NoProblem,
                             !.outcome = NoOutcome]
             ELSE [ui EXCEPT !.isLoading = FALSE,
                             !.running = "none",
                             !.snapshot = NoProblem,
                             !.outcome = NoOutcome]
    /\ UIFrame

\* a queued continuation runs
ResumeUI == ResumeQuantum \/ ResumeClassical \/ ResumeBoth

NextUI ==
    \/ handleProblemGenerated
    \/ handleQAOAParamsChange
    \/ solveWithQuantum
    \/ solveWithClassical
    \/ solveWithBoth
    \/ ResumeQuantum
    \/ ResumeClassical
    \/ ResumeBoth

\* the event loop runs every queued continuation
SpecUI == InitUI /\ [][NextUI]_vars /\ WF_vars(ResumeUI)

\* ------------------------------------------------- the calls on the heap
\* sizes of the problems put on the heap, and calls made in one behaviour
HeapNodes == 3
HeapVehicles == 2
MaxCalls == 2

\* three nodes whose distances are close: node 2 is nearer to the depot than
\* node 1, and the jitter decides which of them is visited first
TriangleMatrix ==
    [i \in 0..2 |-> [j \in 0..2 |->
        IF i = j THEN 0 ELSE IF {i, j} = {0, 2} THEN MaxDist - 1 ELSE MaxDist]]

\* the line problems up to that size, and the triangle
HeapProblems ==
    { [n |-> n, v |-> v, dm |-> LineMatrix(n)] : n \in 0..HeapNodes, v \in 0..HeapVehicles }
        \cup { [n |-> 3, v |-> HeapVehicles, dm |-> TriangleMatrix] }

\* vectors a caller hands to decodeSolution: with at most one bit set, and
\* those the sampler makes for the problem
HeapVectors(p) ==
    VectorsUpTo(p.n * p.n * p.v, 1)
        \cup { SamplerRun(p, draws).solution : draws \in [1..NumDraws(p) -> Jitter] }

\* matrices handed to the sampler as quboMatrix: an all-zero one of the
\* encoder's size, one of that size with other contents, and an empty one
\* (solveVRPWithQAOA hands it the encoder's own matrix)
QuboArguments(p) ==
    { ZeroMatrix(p.n * p.n * p.v),
      [a \in 0..(p.n * p.n * p.v - 1) |-> [b \in 0..(p.n * p.n * p.v - 1) |-> a - b]],
      ZeroMatrix(0) }

\* the QAOAParams objects of the caller, in some order
ParamsObjects ==
    CHOOSE s \in [1..Cardinality(Params) -> Params] :
        \A a, b \in 1..Cardinality(Params) : a # b => s[a] # s[b]

\* the caller's objects: the problem, then the QAOAParams objects
InitMem ==
    /\ problem \in HeapProblems
    /\ vec = <<>>
    /\ penalty = DefaultPenalty
    /\ mem = [heap |-> NewProblem(<<>>, problem) \o ParamsObjects,
              problem |-> 1,
              params |-> { Len(NewProblem(<<>>, problem)) + a : a \in 1..Len(ParamsObjects) },
              calls |-> <<>>]
    /\ classicalSolution = NoResult
    /\ quantumSolution = NoResult
    /\ sampled = NoSample
    /\ decoded = <<>>
    /\ prevDecoded = <<>>
    /\ decodeCalls = 0
    /\ quboPasses = <<>>
    /\ quboStatus = "none"
    /\ generated = NoMatrix
    /\ loop = NoLoop
    /\ conc = NoConc
    /\ view = NoView
    /\ ui = NoUI

MemFrame ==
    UNCHANGED <<problem, classicalSolution, quantumSolution, sampled, vec, decoded,
                prevDecoded, decodeCalls, penalty, quboPasses, quboStatus,
                generated, loop, conc, view, ui>>

\* the record of a call: top is the size of the heap when the function is
\* entered, solution, params and qubo are the addresses of its arguments
\* (0 when it takes none), given is the vector the caller decodes, out is
\* what the function left
Call(fn, top, solution, given, params, qubo, draws, out) ==
    [fn |-> fn, top |-> top, solution |-> solution, given |-> given,
     params |-> params, qubo |-> qubo, draws |-> draws,
     ref |-> out.ref, status |-> out.status]

MemClassical ==
    /\ Len(mem.calls) < MaxCalls
    /\ LET out == HeapSolveVRPClassical(mem.heap, mem.problem)
       IN  mem' = [mem EXCEPT
                     !.heap = out.heap,
                     !.calls = Append(@, Call("solveVRPClassical", Len(mem.heap),
                                              0, <<>>, 0, 0, <<>>, out))]
    /\ MemFrame

\* the encoder's part is the same for every params and every draws
MemQAOA ==
    /\ Len(mem.calls) < MaxCalls
    /\ \E encoded \in {HeapVrpToQubo(mem.heap, mem.problem, DefaultPenalty)} :
           \E params \in mem.params,
              draws \in [1..NumDraws(ProblemAt(mem.heap, mem.problem)) -> Jitter] :
               LET out == HeapSolveVRPWithQAOA(encoded, mem.problem, params, draws)
               IN  mem' = [mem EXCEPT
                             !.heap = out.heap,
                             !.calls = Append(@, Call("solveVRPWithQAOA", Len(mem.heap),
                                                      0, <<>>, params, 0, draws, out))]
    /\ MemFrame

\* decodeSolution on a vector the caller makes for the call
MemDecode ==
    /\ Len(mem.calls) < MaxCalls
    /\ \E given \in HeapVectors(ProblemAt(mem.heap, mem.problem)) :
           LET h0 == Append(mem.heap, given)
               out == HeapDecodeSolution(h0, Len(h0), mem.problem)
           IN  mem' = [mem EXCEPT
                         !.heap = out.heap,
                         !.calls = Append(@, Call("decodeSolution", Len(h0),
                                                  Len(h0), given, 0, 0, <<>>, out))]
    /\ MemFrame

\* decodeSolution once more on the vector of an earlier call, or on the
\* vector a sampler call returned
MemDecodeAgain ==
    /\ Len(mem.calls) < MaxCalls
    /\ \E c \in DOMAIN mem.calls :
           /\ mem.calls[c].fn \in {"decodeSolution", "mockQAOAExecution"}
           /\ LET solution == IF mem.calls[c].fn = "decodeSolution"
                              THEN mem.calls[c].solution
                              ELSE mem.calls[c].ref
                  given == IF mem.calls[c].fn = "decodeSolution"
                           THEN mem.calls[c].given
                           ELSE mem.heap[mem.calls[c].ref]
                  out == HeapDecodeSolution(mem.heap, solution, mem.problem)
              IN  mem' = [mem EXCEPT
                            !.heap = out.heap,
                            !.calls = Append(@, Call("decodeSolution", Len(mem.heap),
                                                     solution, given, 0, 0, <<>>, out))]
    /\ MemFrame

\* vrpToQubo(problem), with the default penalty
MemVrpToQubo ==
    /\ Len(mem.calls) < MaxCalls
    /\ LET out == HeapVrpToQubo(mem.heap, mem.problem, DefaultPenalty)
       IN  mem' = [mem EXCEPT
                     !.heap = out.heap,
                     !.calls = Append(@, Call("vrpToQubo", Len(mem.heap),
                                              0, <<>>, 0, 0, <<>>, out))]
    /\ MemFrame

\* mockQAOAExecution on a matrix the caller makes for the call
MemSampler ==
    /\ Len(mem.calls) < MaxCalls
    /\ \E quboMatrix \in QuboArguments(ProblemAt(mem.heap, mem.problem)),
          params \in mem.params,
          draws \in [1..NumDraws(ProblemAt(mem.heap, mem.problem)) -> Jitter] :
           LET h0 == NewMatrix(mem.heap, quboMatrix)
               out == HeapMockQAOAExecution(h0, Len(h0), mem.problem, params, draws)
           IN  mem' = [mem EXCEPT
                         !.heap = out.heap,
                         !.calls = Append(@, Call("mockQAOAExecution", Len(h0),
                                                  0, <<>>, params, Len(h0), draws, out))]
    /\ MemFrame

NextMem ==
    \/ MemClassical \/ MemQAOA \/ MemDecode \/ MemDecodeAgain
    \/ MemVrpToQubo \/ MemSampler

SpecMem == InitMem /\ [][NextMem]_vars

\* ====================================================== properties
\* the index convention of the data model: idx(i,j,k) = i*n*v + j*v + k
Idx(i, j, k) == i * problem.n * problem.v + j * problem.v + k

NodeIds == 0..(problem.n - 1)
NonDepot == 1..(problem.n - 1)
VehicleIds == 0..(problem.v - 1)

\* number of times node appears in the paths of routes, all routes together
Occurrences(routes, node) ==
    SumSeq([k \in 1..Len(routes) |->
               Cardinality({ t \in 1..Len(routes[k].path) : routes[k].path[t] = node })])

\* sum of the matrix entries along consecutive entries of path
PathEdgeSum(dm, path) ==
    SumSeq([t \in 1..(Len(path) - 1) |-> dm[path[t]][path[t + 1]]])

ClosedAtDepot(route) == route.path[1] = 0 /\ Last(route.path) = 0

Called(solution) == solution # NoResult

\* C1: with at least one vehicle, solveVRPClassical returns routes that
\* contain every non-depot node exactly once in total, and every vehicle that
\* received a node has a path starting and ending at the depot.
C1_ClassicalVisitsEachNodeOnce ==
    (Called(classicalSolution) /\ problem.v >= 1) =>
        /\ classicalSolution.status = "ok"
        /\ \A node \in NonDepot : Occurrences(classicalSolution.routes, node) = 1
        /\ \A k \in 1..Len(classicalSolution.routes) :
               LET r == classicalSolution.routes[k]
               IN  /\ \A t \in 1..Len(r.path) : r.path[t] = 0 \/ r.path[t] \in NonDepot
                   /\ Len(r.path) > 1 => ClosedAtDepot(r)

C1_Witness ==
    /\ classicalSolution.status = "ok"
    /\ problem.n >= 3
    /\ problem.v >= 2
    /\ \A k \in 1..2 : Len(classicalSolution.routes[k].path) >= 3

\* C2: with at least one vehicle and whatever the jitter, the sampler sets
\* for each non-depot node j exactly one bit x[i,j,k], and the routes of
\* solveVRPWithQAOA visit every non-depot node exactly once, each route
\* starting and ending at the depot.
C2_SamplerAssignsEachNodeOnce ==
    (Called(quantumSolution) /\ problem.v >= 1) =>
        /\ quantumSolution.status = "ok"
        /\ \A j \in NonDepot :
               Cardinality({ ik \in NodeIds \X VehicleIds :
                               sampled.solution[Idx(ik[1], j, ik[2])] = 1 }) = 1
        /\ \A j \in NonDepot : Occurrences(quantumSolution.routes, j) = 1
        /\ \A k \in 1..Len(quantumSolution.routes) :
               ClosedAtDepot(quantumSolution.routes[k])

C2_Witness ==
    /\ quantumSolution.status = "ok"
    /\ problem.n >= 3
    /\ problem.v >= 2
    /\ Len(quantumSolution.routes) >= 1
    /\ \E a \in DOMAIN sampled.solution : sampled.solution[a] = 1

\* C3: for both solvers every route's distance is the sum of the matrix
\* entries along its path (closing edge included) and totalDistance is the
\* sum of the routes' distances.
DistancesAddUp(solution) ==
    /\ \A k \in 1..Len(solution.routes) :
           solution.routes[k].distance = PathEdgeSum(problem.dm, solution.routes[k].path)
    /\ solution.totalDistance =
           SumSeq([k \in 1..Len(solution.routes) |->
                      PathEdgeSum(problem.dm, solution.routes[k].path)])

C3_DistanceIsSumOfEdges ==
    /\ classicalSolution.status = "ok" => DistancesAddUp(classicalSolution)
    /\ quantumSolution.status = "ok" => DistancesAddUp(quantumSolution)

C3_Witness ==
    /\ classicalSolution.status = "ok"
    /\ quantumSolution.status = "ok"
    /\ problem.n >= 3
    /\ classicalSolution.totalDistance > 0
    /\ quantumSolution.totalDistance > 0
    /\ quantumSolution.totalDistance # classicalSolution.totalDistance

\* C4 (as claimed): for any binary vector each non-depot node appears in at
\* most one route returned by decodeSolution.
C4_NodeInAtMostOneRoute ==
    decodeCalls >= 1 =>
        \A j \in NonDepot :
            Cardinality({ k \in 1..Len(decoded) :
                            \E t \in 1..Len(decoded[k].path) : decoded[k].path[t] = j }) <= 1

\* C5 (as claimed): on a problem with the depot as its only node both solvers
\* return no route and totalDistance 0.
C5_DepotOnlyGivesNoRoutes ==
    problem.n = 1 =>
        /\ Called(classicalSolution) =>
               /\ classicalSolution.status = "ok"
               /\ classicalSolution.routes = <<>>
               /\ classicalSolution.totalDistance = 0
        /\ Called(quantumSolution) =>
               /\ quantumSolution.status = "ok"
               /\ quantumSolution.routes = <<>>
               /\ quantumSolution.totalDistance = 0

\* C6 (as claimed): solveVRPClassical on a problem without vehicles fails
\* with InvalidInput for every node count and never returns a solution.
C6_NoVehiclesIsInvalidInput ==
    (Called(classicalSolution) /\ problem.v = 0) =>
        classicalSolution.status = "InvalidInput"

\* C7: on the 4-node, 1-vehicle example solveVRPClassical returns exactly one
\* route, path [0,1,2,3,0], distance 14, and totalDistance 14.
C7_ExampleRoute ==
    (Called(classicalSolution) /\ problem = ExampleProblem) =>
        classicalSolution =
            [status |-> "ok",
             routes |-> <<[vehicleId |-> 0, path |-> <<0, 1, 2, 3, 0>>, distance |-> 14]>>,
             totalDistance |-> 14,
             solver |-> "classical"]

C7_Witness ==
    /\ problem = ExampleProblem
    /\ Called(classicalSolution)
    /\ Len(classicalSolution.routes) = 1

\* C8: decodeSolution returns the routes that belong to the vector and the
\* problem it is given, whatever was called before it; called again on the
\* same vector it returns the same routes, and the routes of the earlier
\* call are still what that call returned.
C8_DecodeRepeatable ==
    \A c \in DOMAIN mem.calls :
        mem.calls[c].fn = "decodeSolution" =>
            /\ RoutesAt(mem.heap, mem.calls[c].ref)
                   = decodeSolution(mem.calls[c].given, problem)
            /\ \A d \in DOMAIN mem.calls :
                   (mem.calls[d].fn = "decodeSolution"
                        /\ mem.calls[d].given = mem.calls[c].given) =>
                       RoutesAt(mem.heap, mem.calls[d].ref)
                           = RoutesAt(mem.heap, mem.calls[c].ref)

\* two calls on one vector object that holds a complete tour
C8_Witness ==
    /\ Len(mem.calls) = 2
    /\ mem.calls[1].fn = "decodeSolution"
    /\ mem.calls[2].fn = "decodeSolution"
    /\ mem.calls[2].solution = mem.calls[1].solution
    /\ \E k \in 1..Len(mem.heap[mem.calls[2].ref]) :
           Len(RoutesAt(mem.heap, mem.calls[2].ref)[k].path) >= 4

\* C9: sampler and decoder use the same index convention, so decoding the
\* sampler's vector gives, for each vehicle the sampler used, the depot, the
\* nodes it chose in order of choice, and the depot.
C9_DecodeRoundTripsSampler ==
    (Called(quantumSolution) /\ problem.v >= 1) =>
        /\ \A i, j \in NodeIds : \A k \in VehicleIds :
               /\ samplerIdx(i, j, k, problem.n, problem.v) = Idx(i, j, k)
               /\ index(i, j, k, problem.n, problem.v) = Idx(i, j, k)
        /\ \A k \in 1..problem.v :
               sampled.chosen[k] # <<>> =>
                   \E r \in 1..Len(quantumSolution.routes) :
                       /\ quantumSolution.routes[r].vehicleId = k - 1
                       /\ quantumSolution.routes[r].path = <<0>> \o sampled.chosen[k] \o <<0>>
        /\ Len(quantumSolution.routes) =
               Cardinality({ k \in 1..problem.v : sampled.chosen[k] # <<>> })

C9_Witness ==
    /\ quantumSolution.status = "ok"
    /\ problem.v >= 2
    /\ Len(sampled.chosen[1]) >= 2
    /\ sampled.chosen[1][1] > sampled.chosen[1][2]

\* C10: the objective pass adds distanceMatrix[i][j] exactly once to the
\* diagonal entry of x[i,j,k] for i # j, nothing to the diagonal entries with
\* i = j and nothing off the diagonal.
C10_ObjectivePassDiagonal ==
    quboPasses # <<>> =>
        LET Q1 == quboPasses[1]
        IN  /\ DOMAIN Q1 = 0..(problem.n * problem.n * problem.v - 1)
            /\ \A i, j \in NodeIds : \A k \in VehicleIds :
                   Q1[Idx(i, j, k)][Idx(i, j, k)] =
                       IF i # j THEN problem.dm[i][j] ELSE 0
            /\ \A a, b \in DOMAIN Q1 : a # b => Q1[a][b] = 0

C10_Witness ==
    /\ quboPasses # <<>>
    /\ problem.n >= 3
    /\ problem.v >= 2
    /\ \E a \in DOMAIN quboPasses[1] : quboPasses[1][a][a] >= 2

\* C11: on a problem whose matrix has as many rows as there are nodes,
\* vrpToQubo returns without error a square matrix of side n*n*v, which is
\* the empty matrix when there are no nodes or no vehicles.
C11_QuboIsSquare ==
    (quboStatus # "none" /\ Rows(problem.dm) = problem.n) =>
        LET Q == quboPasses[4]
            side == 0..(problem.n * problem.n * problem.v - 1)
        IN  /\ quboStatus = "ok"
            /\ DOMAIN Q = side
            /\ \A a \in side : DOMAIN Q[a] = side
            /\ (problem.n = 0 \/ problem.v = 0) => DOMAIN Q = {}

C11_Witness ==
    /\ quboStatus = "ok"
    /\ Rows(problem.dm) = problem.n
    /\ problem.n = MaxNodes
    /\ problem.v = MaxVehicles
    /\ Cardinality(DOMAIN quboPasses[4]) = MaxNodes * MaxNodes * MaxVehicles

\* C12: a vrpToQubo call with a non-positive penalty, or on a problem whose
\* node count differs from the number of rows of its matrix, ends in
\* InvalidInput.
C12_InvalidInputSurfaced ==
    (quboStatus # "none" /\ (penalty <= 0 \/ Rows(problem.dm) # problem.n)) =>
        quboStatus = "InvalidInput"

\* the cells of a call's result: the solution object, its routes array, the
\* Route objects and their path arrays; or the matrix and its rows
RouteCells(h, routes) ==
    {routes} \cup { h[routes][k] : k \in 1..Len(h[routes]) }
             \cup { h[h[routes][k]].path : k \in 1..Len(h[routes]) }

ResultCells(h, call) ==
    IF call.status # "ok" THEN {}
    ELSE IF call.fn \in {"solveVRPClassical", "solveVRPWithQAOA"}
    THEN {call.ref} \cup RouteCells(h, h[call.ref].routes)
    ELSE IF call.fn = "decodeSolution" THEN RouteCells(h, call.ref)
    ELSE IF call.fn = "vrpToQubo"
    THEN {call.ref} \cup { h[call.ref][i] : i \in DOMAIN h[call.ref] }
    ELSE {call.ref}

\* C13: a call of solveVRPClassical, solveVRPWithQAOA, decodeSolution or
\* vrpToQubo writes to no object that existed before it: the problem's
\* nodes, vehicles and distance matrix and the vector handed to
\* decodeSolution are afterwards what they were, the routes or the matrix it
\* returns are made of objects allocated during the call, no object of its
\* result is part of the result of an earlier call, and the result of an
\* earlier call is still what the function returns on the problem.
C13_CallsLeaveInputsAlone ==
    /\ [][\A a \in 1..Len(mem.heap) : mem'.heap[a] = mem.heap[a]]_vars
    /\ [](/\ mem.problem # 0 => ProblemAt(mem.heap, mem.problem) = problem
          /\ \A c \in DOMAIN mem.calls :
                 /\ mem.calls[c].fn = "decodeSolution" =>
                        mem.heap[mem.calls[c].solution] = mem.calls[c].given
                 /\ \A a \in ResultCells(mem.heap, mem.calls[c]) : a > mem.calls[c].top
                 /\ mem.calls[c].fn = "solveVRPClassical" =>
                        /\ mem.calls[c].status = solveVRPClassical(problem).status
                        /\ mem.calls[c].status = "ok" =>
                               SolutionAt(mem.heap, mem.calls[c].ref)
                                   = solveVRPClassical(problem)
                 /\ mem.calls[c].fn = "vrpToQubo" =>
                        /\ mem.calls[c].status = vrpToQuboStatus(problem, DefaultPenalty)
                        /\ mem.calls[c].status = "ok" =>
                               MatrixAt(mem.heap, mem.calls[c].ref)
                                   = vrpToQubo(problem, DefaultPenalty)
                 /\ \A d \in DOMAIN mem.calls :
                        d < c => ResultCells(mem.heap, mem.calls[c])
                                     \cap ResultCells(mem.heap, mem.calls[d]) = {})

\* the classical solver and then solveVRPWithQAOA have returned routes on
\* the largest problem
C13_Witness ==
    /\ Len(mem.calls) = 2
    /\ mem.calls[1].fn = "solveVRPClassical"
    /\ mem.calls[2].fn = "solveVRPWithQAOA"
    /\ problem.n = HeapNodes
    /\ problem.v = HeapVehicles
    /\ Len(mem.heap[mem.heap[mem.calls[1].ref].routes]) = HeapVehicles
    /\ Len(mem.heap[mem.heap[mem.calls[2].ref].routes]) >= 1

\* C14: on a problem with at least one vehicle, every iteration of the
\* classical solver's loop and of the sampler's inner loop takes exactly one
\* node out of unassignedNodes / remainingNodes, every iteration of the
\* decoder's inner loop adds exactly one node to visitedNodes or leaves the
\* loop for the next vehicle, and each of the three functions, once entered,
\* returns.
C14_LoopsTerminate ==
    /\ [][/\ ClassicalWhile =>
                Len(loop'.st.unassigned) = Len(loop.st.unassigned) - 1
          /\ SamplerWhile =>
                Len(loop'.st.remainingNodes) = Len(loop.st.remainingNodes) - 1
          /\ DecoderWhile =>
                \/ Cardinality(loop'.st.visitedNodes) = Cardinality(loop.st.visitedNodes) + 1
                \/ loop'.pc = "for" /\ loop'.veh = loop.veh + 1
         ]_vars
    /\ (loop.fn # "none") ~> (loop.pc = "done")

C14_Witness ==
    /\ loop.fn = "decoder"
    /\ loop.pc = "done"
    /\ problem.n = MaxNodes
    /\ problem.v = MaxVehicles
    /\ Len(loop.routes) >= 1

\* C15: for a whole number of nodes, a whole maxDistance >= 1 and any random
\* draws, generateRandomDistanceMatrix returns a numNodes x numNodes matrix
\* with a zero diagonal, equal entries at [i][j] and [j][i], and every
\* off-diagonal entry an integer from 1 to maxDistance.
C15_GeneratedMatrixShape ==
    generated.done =>
        LET d == generated.matrix
            ids == 0..(generated.numNodes - 1)
        IN  /\ DOMAIN d = ids
            /\ \A i \in ids : DOMAIN d[i] = ids
            /\ \A i \in ids : d[i][i] = 0
            /\ \A i, j \in ids : d[i][j] = d[j][i]
            /\ \A i, j \in ids : i # j => d[i][j] \in 1..generated.maxDistance

C15_Witness ==
    /\ generated.done
    /\ generated.numNodes = MaxNodes
    /\ generated.maxDistance = MaxDist
    /\ generated.matrix[0][1] = 1
    /\ generated.matrix[1][2] = MaxDist

\* C16: for a fixed problem and fixed random draws the sampler returns the
\* same vector whatever the params object and the quboMatrix it is handed
\* hold, and solveVRPWithQAOA returns the same routes and totalDistance
\* whatever the params object holds: two calls in one behaviour that differ
\* in these arguments agree, and both agree with the sampler run on the
\* problem and the draws alone.
C16_ParamsAndQuboIgnored ==
    \A c \in DOMAIN mem.calls :
        /\ mem.calls[c].fn = "mockQAOAExecution" =>
               /\ mem.heap[mem.calls[c].ref]
                      = SamplerRun(problem, mem.calls[c].draws).solution
               /\ \A d \in DOMAIN mem.calls :
                      (mem.calls[d].fn = "mockQAOAExecution"
                           /\ mem.calls[d].draws = mem.calls[c].draws) =>
                          mem.heap[mem.calls[d].ref] = mem.heap[mem.calls[c].ref]
        /\ (mem.calls[c].fn = "solveVRPWithQAOA" /\ mem.calls[c].status = "ok") =>
               /\ RoutesAt(mem.heap, mem.heap[mem.calls[c].ref].routes)
                      = decodeSolution(SamplerRun(problem, mem.calls[c].draws).solution,
                                       problem)
               /\ mem.heap[mem.calls[c].ref].totalDistance
                      = TotalDistance(RoutesAt(mem.heap, mem.heap[mem.calls[c].ref].routes))
               /\ \A d \in DOMAIN mem.calls :
                      (mem.calls[d].fn = "solveVRPWithQAOA"
                           /\ mem.calls[d].status = "ok"
                           /\ mem.calls[d].draws = mem.calls[c].draws) =>
                          /\ RoutesAt(mem.heap, mem.heap[mem.calls[d].ref].routes)
                                 = RoutesAt(mem.heap, mem.heap[mem.calls[c].ref].routes)
                          /\ mem.heap[mem.calls[d].ref].totalDistance
                                 = mem.heap[mem.calls[c].ref].totalDistance

\* two sampler calls on the same draws with different params objects and
\* matrices of different contents, on a problem where other draws give
\* another vector
C16_Witness ==
    /\ Len(mem.calls) = 2
    /\ mem.calls[1].fn = "mockQAOAExecution"
    /\ mem.calls[2].fn = "mockQAOAExecution"
    /\ mem.calls[1].draws = mem.calls[2].draws
    /\ mem.heap[mem.calls[1].params].p # mem.heap[mem.calls[2].params].p
    /\ MatrixAt(mem.heap, mem.calls[1].qubo) # MatrixAt(mem.heap, mem.calls[2].qubo)
    /\ \E draws \in [1..NumDraws(problem) -> Jitter] :
           SamplerRun(problem, draws).solution # mem.heap[mem.calls[1].ref]

\* C17: every route of a solution returned by either solver has a path of
\* at least three nodes, so a vehicle that was given no node has no route.
C17_RoutesAreNonTrivial ==
    /\ classicalSolution.status = "ok" =>
           \A k \in 1..Len(classicalSolution.routes) :
               Len(classicalSolution.routes[k].path) >= 3
    /\ quantumSolution.status = "ok" =>
           \A k \in 1..Len(quantumSolution.routes) :
               Len(quantumSolution.routes[k].path) >= 3

\* C18: with no vehicles and any number of nodes, solveVRPWithQAOA returns
\* without error a solution with no routes, totalDistance 0 and the solver
\* tag 'quantum'.
C18_QAOAWithoutVehicles ==
    (Called(quantumSolution) /\ problem.v = 0) =>
        /\ quantumSolution.status = "ok"
        /\ quantumSolution.routes = <<>>
        /\ quantumSolution.totalDistance = 0
        /\ quantumSolution.solver = "quantum"
        /\ sampled.solution = <<>>

C18_Witness ==
    /\ Called(quantumSolution)
    /\ quantumSolution.status = "ok"
    /\ problem.v = 0
    /\ problem.n = MaxNodes

\* what pass number k (2, 3 or 4) of the last vrpToQubo call added to Q[a][b]
PassAdded(k, a, b) == quboPasses[k][a][b] - quboPasses[k - 1][a][b]

\* C19: the destination pass adds -penalty to the diagonal entry of every
\* x[i,j,k] with j not the depot (any origin i, any vehicle k), adds
\* +2*penalty to Q[a][b] for every ordered pair of distinct variables a, b
\* with the same non-depot destination, and adds nothing anywhere else; in
\* particular nothing to a variable whose destination is the depot.
C19_DestinationPass ==
    quboStatus = "ok" =>
        \A i1, j1, i2, j2 \in NodeIds : \A k1, k2 \in VehicleIds :
            PassAdded(2, Idx(i1, j1, k1), Idx(i2, j2, k2)) =
                IF j1 # j2 \/ j1 = 0 THEN 0
                ELSE IF i1 = i2 /\ k1 = k2 THEN -penalty
                ELSE 2 * penalty

C19_Witness ==
    /\ quboStatus = "ok"
    /\ problem.n = MaxNodes
    /\ problem.v = MaxVehicles
    /\ penalty = DefaultPenalty
    /\ PassAdded(2, Idx(1, 1, 0), Idx(1, 1, 0)) = -DefaultPenalty
    /\ PassAdded(2, Idx(0, 2, 0), Idx(1, 2, 1)) = 2 * DefaultPenalty

\* C20: the source pass is the destination pass with origin and destination
\* exchanged: what it adds to Q at (x[i1,j1,k1], x[i2,j2,k2]) is what the
\* destination pass adds at (x[j1,i1,k1], x[j2,i2,k2]), so that every
\* x[i,j,k] with i not the depot, for every destination j, gets -penalty on
\* its diagonal.
C20_SourcePassMirrorsDestinationPass ==
    quboStatus = "ok" =>
        \A i1, j1, i2, j2 \in NodeIds : \A k1, k2 \in VehicleIds :
            PassAdded(3, Idx(i1, j1, k1), Idx(i2, j2, k2)) =
                PassAdded(2, Idx(j1, i1, k1), Idx(j2, i2, k2))

\* number of (k, i, j) iterations of the continuity pass in which x[a,b,veh]
\* is the incoming variable (k = b) plus those in which it is the outgoing
\* variable (k = a): one per choice of the other end, which avoids k
IncidentTriples(a, b) ==
    (IF b # 0 /\ a # b THEN problem.n - 1 ELSE 0)
    + (IF a # 0 /\ a # b THEN problem.n - 1 ELSE 0)

\* C21: the continuity pass adds, for every non-depot node k, vehicle veh and
\* i # k, j # k, +penalty to the diagonal of in = x[i,k,veh], +penalty to the
\* diagonal of out = x[k,j,veh] and -2*penalty to Q[in][out] only; so a
\* diagonal entry gets +penalty once per iteration the variable takes part
\* in, Q[x[i,k,veh]][x[k,j,veh]] gets -2*penalty once, and every other
\* entry, Q[out][in] included, gets nothing.
C21_ContinuityPass ==
    quboStatus = "ok" =>
        \A i1, j1, i2, j2 \in NodeIds : \A k1, k2 \in VehicleIds :
            PassAdded(4, Idx(i1, j1, k1), Idx(i2, j2, k2)) =
                IF i1 = i2 /\ j1 = j2 /\ k1 = k2
                THEN IncidentTriples(i1, j1) * penalty
                ELSE IF k1 = k2 /\ j1 = i2 /\ j1 # 0 /\ i1 # j1 /\ j2 # j1
                THEN -(2 * penalty)
                ELSE 0

C21_Witness ==
    /\ quboStatus = "ok"
    /\ problem.n = MaxNodes
    /\ problem.v = MaxVehicles
    /\ penalty = DefaultPenalty
    /\ PassAdded(4, Idx(0, 1, 1), Idx(1, 2, 1)) = -(2 * DefaultPenalty)
    /\ PassAdded(4, Idx(1, 2, 1), Idx(0, 1, 1)) = 0
    /\ PassAdded(4, Idx(0, 1, 1), Idx(0, 1, 1)) = (MaxNodes - 1) * DefaultPenalty

\* vehicle k has a bit x[0,j,k] set for some non-depot j
LeavesDepot(solution, k) == \E j \in NonDepot : Bit(solution, Idx(0, j, k))

\* C22: every route decodeSolution returns starts and ends at the depot, has
\* at least three nodes, and its interior nodes are pairwise distinct
\* non-depot nodes; a vehicle with no bit x[0,j,k], j # 0, has no route; the
\* all-zero vector decodes to no route at all.
C22_DecodedRouteShape ==
    decodeCalls >= 1 =>
        /\ \A r \in 1..Len(decoded) :
               LET path == decoded[r].path
               IN  /\ Len(path) >= 3
                   /\ path[1] = 0
                   /\ Last(path) = 0
                   /\ \A t \in 2..(Len(path) - 1) : path[t] \in NonDepot
                   /\ \A t, u \in 2..(Len(path) - 1) : t # u => path[t] # path[u]
        /\ \A k \in VehicleIds :
               ~LeavesDepot(vec, k) =>
                   \A r \in 1..Len(decoded) : decoded[r].vehicleId # k
        /\ (\A a \in DOMAIN vec : vec[a] = 0) => decoded = <<>>

C22_Witness ==
    /\ decodeCalls >= 1
    /\ problem.v >= 2
    /\ Len(decoded) = 1
    /\ Len(decoded[1].path) >= 4
    /\ \E k \in VehicleIds : ~LeavesDepot(vec, k)

\* C23: when the two solvers run side by side on one problem, under every
\* interleaving of their steps the classical solver returns what it returns
\* alone, and solveVRPWithQAOA returns what it returns alone on the same
\* random draws.
C23_ConcurrentSolversIndependent ==
    /\ conc.cl.pc = "done" => conc.cl.result = solveVRPClassical(problem)
    /\ conc.qa.pc = "done" =>
           \A params \in Params :
               conc.qa.result = solveVRPWithQAOA(problem, params, conc.draws)

\* both have returned, on the largest problem
C23_Witness ==
    /\ conc.cl.pc = "done"
    /\ conc.qa.pc = "done"
    /\ problem.n = MaxNodes
    /\ problem.v = MaxVehicles
    /\ Len(conc.cl.result.routes) = MaxVehicles
    /\ Len(conc.qa.result.routes) = 1

\* C24 (as claimed): the scale factors of the visualization are never formed
\* by dividing by a zero extent, also when all nodes share an x or a y
\* coordinate.
C24_NoDivisionByZeroExtent ==
    view.done => (view.divisorX # 0 /\ view.divisorY # 0)

\* C25: with at least two nodes and at least one vehicle the sampler hands
\* every non-depot node to the first vehicle: every bit it sets belongs to
\* vehicle 0, it sets exactly n bits (n - 1 edges and the return edge), and
\* solveVRPWithQAOA returns exactly one route, that of the first vehicle.
C25_SamplerUsesFirstVehicleOnly ==
    (Called(quantumSolution) /\ problem.n >= 2 /\ problem.v >= 1) =>
        /\ \A i \in NodeIds, j \in NodeIds, k \in VehicleIds :
               sampled.solution[Idx(i, j, k)] = 1 => k = 0
        /\ Cardinality({ a \in DOMAIN sampled.solution : sampled.solution[a] = 1 })
             = problem.n
        /\ quantumSolution.status = "ok"
        /\ Len(quantumSolution.routes) = 1
        /\ quantumSolution.routes[1].vehicleId = 0

C25_Witness ==
    /\ Called(quantumSolution)
    /\ problem.n >= 3
    /\ problem.v >= 2
    /\ Len(quantumSolution.routes) = 1
    /\ Len(quantumSolution.routes[1].path) = problem.n + 1

\* the number of non-depot nodes on a path
NodesServed(path) == Cardinality({ t \in DOMAIN path : path[t] # 0 })

\* ceil((n - 1 - k) / v), and 0 when k >= n - 1
RoundRobinShare(n, v, k) ==
    IF k >= n - 1 THEN 0 ELSE (n - 1 - k + v - 1) \div v

\* C26: the classical solver hands out nodes round-robin: the t-th assignment
\* (t = 0, 1, ...) extends the path of vehicle t mod v and of no other
\* vehicle; at the end vehicle k has ceil((n - 1 - k) / v) nodes, none when
\* k >= n - 1, so that two vehicles' node counts differ by at most one.
C26_RoundRobinAssignment ==
    /\ [][ClassicalWhile =>
            LET t == (problem.n - 1) - Len(loop.st.unassigned)
                turn == (t % problem.v) + 1
            IN  \A k \in 1..problem.v :
                    IF k = turn
                    THEN /\ Len(loop'.st.routes[k].path) = Len(loop.st.routes[k].path) + 1
                         /\ \E u \in DOMAIN loop.st.unassigned :
                                Last(loop'.st.routes[k].path) = loop.st.unassigned[u]
                    ELSE loop'.st.routes[k] = loop.st.routes[k]
         ]_vars
    /\ [](loop.fn = "classical" /\ loop.pc = "done" =>
            /\ Len(loop.routes) = problem.v
            /\ \A k \in 1..problem.v :
                   NodesServed(loop.routes[k].path)
                     = RoundRobinShare(problem.n, problem.v, k - 1)
            /\ \A a \in 1..problem.v, b \in 1..problem.v :
                   NodesServed(loop.routes[a].path)
                     - NodesServed(loop.routes[b].path) <= 1)

C26_Witness ==
    /\ loop.fn = "classical"
    /\ loop.pc = "done"
    /\ problem.n = RoundRobinNodes
    /\ problem.v = MaxVehicles
    /\ problem.v >= 2
    /\ NodesServed(loop.routes[1].path) = 3
    /\ \A k \in 2..problem.v : NodesServed(loop.routes[k].path) = 2

\* C27: the diagonal of the finished matrix in closed form.  For x[i,j,k] with
\* i # j both non-depot it is d[i][j] + (2n - 4) * penalty, with exactly one of
\* i, j the depot d[i][j] + (n - 2) * penalty, for a non-depot self-loop
\* x[j,j,k] it is -penalty, and the row and the column of x[0,0,k] are zero.
C27_DiagonalClosedForm ==
    quboStatus = "ok" =>
        LET Q == quboPasses[4]
            n == problem.n
        IN  /\ \A i, j \in NodeIds : \A k \in VehicleIds :
                   Q[Idx(i, j, k)][Idx(i, j, k)] =
                       IF i # j /\ i # 0 /\ j # 0
                       THEN problem.dm[i][j] + (2 * n - 4) * penalty
                       ELSE IF i # j
                       THEN problem.dm[i][j] + (n - 2) * penalty
                       ELSE IF j # 0
                       THEN -penalty
                       ELSE 0
            /\ \A k \in VehicleIds : \A a \in DOMAIN Q :
                   Q[Idx(0, 0, k)][a] = 0 /\ Q[a][Idx(0, 0, k)] = 0

C27_Witness ==
    /\ quboStatus = "ok"
    /\ problem.n = MaxNodes
    /\ problem.v = MaxVehicles
    /\ penalty = DefaultPenalty
    /\ problem.dm[1][2] = MaxDist
    /\ quboPasses[4][Idx(1, 2, 1)][Idx(1, 2, 1)]
         = MaxDist + (2 * MaxNodes - 4) * DefaultPenalty
    /\ quboPasses[4][Idx(2, 2, 0)][Idx(2, 2, 0)] = -DefaultPenalty

\* variable a = idx(i, j, k) stands for an edge into the depot or a self-loop
Unread(a) ==
    LET i == a \div (problem.n * problem.v)
        j == (a \div problem.v) % problem.n
    IN  j = 0 \/ i = j

\* the vector with every such bit set to b
WithUnread(solution, b) ==
    [a \in DOMAIN solution |-> IF Unread(a) THEN b ELSE solution[a]]

\* C28: decodeSolution does not read the bits x[i,0,k] and x[i,i,k]: the
\* routes are the same with all of them cleared and with all of them set;
\* and every route it returns ends with the edge back to the depot, whose
\* length is part of the route's distance, whether or not that edge's bit
\* is set.
C28_DecodeIgnoresDepotAndSelfLoopBits ==
    decodeCalls >= 1 =>
        /\ decoded = decodeSolution(WithUnread(vec, 0), problem)
        /\ decoded = decodeSolution(WithUnread(vec, 1), problem)
        /\ \A r \in 1..Len(decoded) :
               LET path == decoded[r].path
               IN  /\ Last(path) = 0
                   /\ Len(path) >= 3
                   /\ decoded[r].distance = PathEdgeSum(problem.dm, path)
                   /\ decoded[r].distance >=
                         problem.dm[path[Len(path) - 1]][0]

\* a route is decoded from a vector that sets the bit of an edge into the
\* depot, and from one whose closing edge has no bit
C28_Witness ==
    /\ decodeCalls >= 1
    /\ problem.n >= 3
    /\ Len(decoded) = 1
    /\ \E a \in DOMAIN vec : vec[a] = 1 /\ Unread(a)
    /\ LET path == decoded[1].path
           a == Idx(path[Len(path) - 1], 0, decoded[1].vehicleId)
       IN  vec[a] = 0

\* C29: every solve action that sets isLoading sets it back to false, whether
\* the solver's promise is fulfilled or rejected; and while isLoading is true
\* neither a solve action nor the generation of a problem is enabled: the
\* only step taken is the end of the running solve action.
C29_LoadingEndsAndBlocksActions ==
    /\ ui.isLoading ~> ~ui.isLoading
    /\ [](ui.isLoading =>
            ~ENABLED (handleProblemGenerated \/ handleQAOAParamsChange
                        \/ solveWithQuantum \/ solveWithClassical
                        \/ solveWithBoth))
    /\ [][ui.isLoading =>
            /\ ~ui'.isLoading
            /\ ui'.running = "none"
            /\ ui'.problem = ui.problem
            /\ ui'.qaoaParams = ui.qaoaParams
            /\ ui'.activeSolver = ui.activeSolver]_vars

\* a solve action whose promise was rejected is running
C29_Witness ==
    /\ ui.isLoading
    /\ ui.running = "both"
    /\ Fulfilled(ui.outcome.quantum)
    /\ ui.outcome.classical = Rejected
    /\ Called(ui.quantumSolution)

\* both solutions and activeSolver are cleared
SolutionsCleared(page) ==
    /\ page.quantumSolution = NoResult
    /\ page.classicalSolution = NoResult
    /\ page.activeSolver = "null"

\* C30: after any sequence of generate and solve actions every stored solution
\* was computed from the stored problem (the quantum solution is compared
\* with the solver's results whenever no solve action runs, and a step into
\* or within a running solve action changes neither the problem nor the
\* solutions).  Generating a problem (the step that changes the problem, and
\* the only one between two states without a running solve action that
\* leaves qaoaParams alone) clears both
\* solutions and activeSolver; a solve action never stores its result after
\* a newer problem was set (the problem its closure holds is the stored one
\* for as long as it runs); and solveWithBoth stores both solutions, or
\* neither when one of the two solvers fails.
C30_SolutionsBelongToProblem ==
    /\ [](Called(ui.quantumSolution) =>
            /\ ui.quantumFrom = ui.problem
            /\ Fulfilled(ui.quantumSolution))
    /\ []((Called(ui.quantumSolution) /\ ~ui.isLoading) =>
            ui.quantumSolution \in QuantumOutcomes(ui.problem, ui.qaoaParams))
    /\ [][ui'.isLoading =>
            /\ ui'.problem = ui.problem
            /\ ui'.quantumSolution = ui.quantumSolution
            /\ ui'.classicalSolution = ui.classicalSolution]_vars
    /\ [](Called(ui.classicalSolution) =>
            /\ ui.classicalFrom = ui.problem
            /\ ui.classicalSolution = solveVRPClassical(ui.problem))
    /\ [](ui.isLoading => ui.snapshot = ui.problem)
    /\ [][(ui'.problem # ui.problem
              \/ (~ui.isLoading /\ ~ui'.isLoading /\ ui'.qaoaParams = ui.qaoaParams)) =>
            SolutionsCleared(ui')]_vars
    /\ [][ResumeBoth =>
            IF Fulfilled(ui.outcome.quantum) /\ Fulfilled(ui.outcome.classical)
            THEN /\ ui'.quantumSolution = ui.outcome.quantum
                 /\ ui'.classicalSolution = ui.outcome.classical
            ELSE /\ ui'.quantumSolution = ui.quantumSolution
                 /\ ui'.classicalSolution = ui.classicalSolution]_vars

\* both solutions are stored for a problem with unequal distances, the last
\* solve action having been a single-solver one
C30_Witness ==
    /\ ~ui.isLoading
    /\ Called(ui.quantumSolution)
    /\ Called(ui.classicalSolution)
    /\ ui.activeSolver = "classical"
    /\ ui.problem.v = MinSliderVehicles + 1
    /\ ui.problem.dm[0][1] = MaxDist
    /\ ui.problem.dm[0][2] = 1
    /\ ui.problem.dm[1][2] = MaxDist - 1

====
